---- MODULE Spec2Model ----
(***************************************************************************)
(* A model of two passes of the compiler:                                  *)
(*   - gcc/omp-oacc-kernels.c: the conversion of an OpenACC kernels region *)
(*     into a data region holding gang-single and parallelized regions;    *)
(*   - gcc/fortran/openmp.c: the resolution of OpenMP clauses and of       *)
(*     collapsed DO loops.                                                 *)
(* Trees, GIMPLE statements and clause chains are records and sequences;   *)
(* a NULL pointer is the record NULL, a NULL chain the empty sequence.     *)
(***************************************************************************)
EXTENDS Integers, Sequences, FiniteSets, TLC

VARIABLES
  pc,                       \* position of the pass that is running
  kernels_region,           \* the GIMPLE_OMP_TARGET statement being converted
  is_template,              \* DECL_TEMPLATE_INSTANTIATION (current_function_decl)
  data_clauses,             \* transform_kernels_region: clauses of the new data region
  num_gangs_clause,         \* decompose_kernels_region_body: the clause cut out
  kernels_clauses,          \* the chain handed to the child regions
  inner_bind_vars,          \* what flatten_binds returned
  inner_cleanup,            \* cleanup block of a leading try statement
  body_sequence,            \* statements still to be scanned
  region_body,              \* child regions emitted so far
  gang_single_seq,          \* pending sequential statements
  only_simple_assignments,  \* whether the pending run is loop setup only
  new_region,               \* what transform_kernels_region returned
  original_region,          \* the kernels region as the pass found it (history)
  omp_clauses,              \* gfc_omp_clauses: lists[list] is a chain of symbols
  symtab,                   \* per symbol: ts.type and attr
  mark,                     \* per symbol: gfc_symbol.mark
  errors,                   \* the diagnostics gfc_error has reported, in order
  do_nest,                  \* the loop nest under a loop directive: do_nest[i + 1]
                            \* is the first statement of the body of do_nest[i]
  code_op,                  \* code->op of that directive
  atomic_code,              \* the EXEC_OMP_ATOMIC statement: ext.omp_atomic and
                            \* the assignments of its block
  directive_text,           \* the clauses of the directive line being matched
  parser,                   \* gfc_match_omp_clauses: gfc_current_locus, first,
                            \* needs_space, mask and the clause set c it builds
  cp,                       \* the caller's clause set pointer, *cp
  matched,                  \* what gfc_match_omp_clauses returned
  omp_current_ctx,          \* the open parallel constructs, innermost first
  omp_current_do_code,      \* the loop statement of the open loop construct
  omp_current_do_collapse,  \* how many of its loops the directive collapses
  saved_state,              \* the gfc_omp_saved_state records of the callers
  call_stack,               \* the block resolutions that have not returned
  constructs                \* per construct: lists[OMP_LIST_PRIVATE] of its clauses

kvars == <<kernels_region, is_template, data_clauses, num_gangs_clause,
           kernels_clauses, inner_bind_vars, inner_cleanup, body_sequence,
           region_body, gang_single_seq, only_simple_assignments, new_region,
           original_region>>
cvars == <<omp_clauses, symtab, mark>>
dvars == <<do_nest, code_op, atomic_code>>
pvars == <<directive_text, parser, cp, matched>>
xvars == <<omp_current_ctx, omp_current_do_code, omp_current_do_collapse,
           saved_state, call_stack, constructs>>
vars == <<pc, kvars, cvars, errors, dvars, pvars, xvars>>

NULL == [code |-> "null"]

(***************************************************************************)
(* Bounds of the inputs.                                                   *)
(***************************************************************************)
MaxStmts == 3
MaxClauses == 2

(***************************************************************************)
(* GIMPLE statements and declarations.                                     *)
(***************************************************************************)
Decl(name, tcode, artificial) ==
  [name |-> name, tcode |-> tcode, artificial |-> artificial]

DECL_P(t) == t.tcode \in {"var_decl", "const_decl", "parm_decl"}
DECL_ARTIFICIAL(t) == t.artificial

GAssign(id, lhs) == [code |-> "assign", id |-> id, lhs |-> lhs]
GCall(id) == [code |-> "call", id |-> id]
GOmpFor(id, clauses) == [code |-> "omp_for", id |-> id, clauses |-> clauses]
GBind(id, bvars, body) == [code |-> "bind", id |-> id, vars |-> bvars, body |-> body]
GTry(id, eval, cleanup) == [code |-> "try", id |-> id, eval |-> eval, cleanup |-> cleanup]
GNop == [code |-> "nop", id |-> <<>>]

(***************************************************************************)
(* top_level_omp_for_in_stmt: the OMP_FOR that STMT is, or that STMT wraps *)
(* with nothing but setup code, or NULL.                                   *)
(***************************************************************************)
(* mutant: the loop need not be the last statement of the scope *)
AssignsThenAnyFor(body) ==
  LET stops == {i \in 1..Len(body) : body[i].code # "assign"}
  IN IF stops = {} THEN NULL
     ELSE LET i == CHOOSE k \in stops : \A m \in stops : k <= m
          IN IF body[i].code = "omp_for" THEN body[i] ELSE NULL

AssignsThenFor(body) ==
  LET stops == {i \in 1..Len(body) : body[i].code # "assign"}
  IN IF stops = {} THEN NULL
     ELSE LET i == CHOOSE k \in stops : \A m \in stops : k <= m
          IN IF body[i].code = "omp_for" /\ i = Len(body) THEN body[i] ELSE NULL

top_level_omp_for_in_stmt(stmt) ==
  IF stmt.code = "omp_for" THEN stmt
  ELSE IF stmt.code = "bind" THEN
    IF Len(stmt.body) = 1 THEN
      LET maybe_for_or_try == stmt.body[1]
      IN IF maybe_for_or_try.code = "omp_for" THEN maybe_for_or_try
         ELSE IF maybe_for_or_try.code = "try" THEN
           IF Len(maybe_for_or_try.eval) # 1 THEN NULL
           ELSE IF maybe_for_or_try.eval[1].code = "omp_for"
                THEN maybe_for_or_try.eval[1] ELSE NULL
         ELSE NULL
    ELSE AssignsThenFor(stmt.body)
  ELSE NULL

(***************************************************************************)
(* OMP clauses.                                                            *)
(***************************************************************************)
NumGangs(n) == [code |-> "num_gangs", val |-> n]
MapClause(kind, decl, size_zero) ==
  [code |-> "map", kind |-> kind, decl |-> decl, size_zero |-> size_zero]
IfClause == [code |-> "if"]
NumWorkers == [code |-> "num_workers"]
AutoClause == [code |-> "auto"]

(***************************************************************************)
(* make_gang_single_region                                                 *)
(***************************************************************************)
GangSingleHead(clauses) == <<NumGangs(1)>> \o clauses

(* mutant: only the first statement of the run is put in the region *)
make_gang_single_region_of_first(stmts, clauses) ==
  [code |-> "omp_target", kind |-> "oacc_parallel_kernels_gang_single",
   clauses |-> <<NumGangs(1)>> \o clauses,
   body |-> GBind(<<>>, <<>>, <<Head(stmts)>>)]

make_gang_single_region(stmts, clauses) ==
  [code |-> "omp_target", kind |-> "oacc_parallel_kernels_gang_single",
   clauses |-> GangSingleHead(clauses),
   body |-> GBind(<<>>, <<>>, stmts)]

(***************************************************************************)
(* transform_kernels_loop_clauses: the loop gets an auto clause unless it  *)
(* has one of auto, independent, seq; the region gets the num_gangs clause *)
(* of the kernels region, if any.                                          *)
(***************************************************************************)
(* mutant: an auto clause is added to every loop *)
add_auto_clause_always(loop_clauses) == TRUE

add_auto_clause(loop_clauses) ==
  ~ \E i \in 1..Len(loop_clauses) :
      loop_clauses[i].code \in {"auto", "independent", "seq"}

transform_loop(omp_for) ==
  IF add_auto_clause(omp_for.clauses)
  THEN [omp_for EXCEPT !.clauses = <<AutoClause>> \o @]
  ELSE omp_for

transform_kernels_loop_clauses(ngc, clauses) ==
  IF ngc # NULL THEN <<ngc>> \o clauses ELSE clauses

(* The loop is modified in place: STMT with OMP_FOR, wherever it sits in   *)
(* STMT, replaced by its transformed self.                                 *)
RECURSIVE with_transformed_loop(_, _)
with_transformed_loop(stmt, omp_for) ==
  IF stmt = omp_for THEN transform_loop(stmt)
  ELSE IF stmt.code = "bind"
  THEN [stmt EXCEPT !.body =
          [i \in 1..Len(stmt.body) |-> with_transformed_loop(stmt.body[i], omp_for)]]
  ELSE IF stmt.code = "try"
  THEN [stmt EXCEPT !.eval =
          [i \in 1..Len(stmt.eval) |-> with_transformed_loop(stmt.eval[i], omp_for)]]
  ELSE stmt

(***************************************************************************)
(* make_gang_parallel_loop_region                                          *)
(***************************************************************************)
make_gang_parallel_loop_region(omp_for, stmt, ngc, clauses) ==
  [code |-> "omp_target", kind |-> "oacc_parallel_kernels_parallelized",
   clauses |-> transform_kernels_loop_clauses(ngc, clauses),
   body |-> GBind(<<>>, <<>>, <<with_transformed_loop(stmt, omp_for)>>)]

(***************************************************************************)
(* flatten_binds: the statements of the binds nested in BIND are moved     *)
(* into BIND, except binds that hold a top-level OMP_FOR; the result is    *)
(* the chain of the local variables of the eliminated binds.  The chain is *)
(* kept as the sequence vars; last_var is NULL or a node of that chain, so *)
(* walking it to its end reaches the end of vars.                          *)
(***************************************************************************)
AppendInnerVars(acc_vars, last_var_null, inner_vars) ==
  IF ~last_var_null THEN acc_vars \o inner_vars ELSE inner_vars

RECURSIVE flatten_binds(_, _)
RECURSIVE flatten_loop(_, _, _)
flatten_loop(body, i, acc) ==
  IF i > Len(body) THEN acc
  ELSE LET stmt == body[i]
       IN IF stmt.code = "bind" /\ top_level_omp_for_in_stmt(stmt) = NULL
          THEN LET inner == flatten_binds(stmt, TRUE)
               IN flatten_loop(body, i + 1,
                    [vars |-> AppendInnerVars(acc.vars, acc.last_var_null, inner.vars),
                     last_var_null |-> inner.vars = <<>>,
                     new_body |-> acc.new_body \o inner.body])
          ELSE flatten_loop(body, i + 1,
                    [acc EXCEPT !.new_body = Append(@, stmt)])

flatten_binds(bind, include_toplevel_vars) ==
  LET vars0 == IF include_toplevel_vars THEN bind.vars ELSE <<>>
      r == flatten_loop(bind.body, 1,
             [vars |-> vars0, last_var_null |-> vars0 = <<>>, new_body |-> <<>>])
  IN [vars |-> r.vars, body |-> r.new_body]

(***************************************************************************)
(* make_data_region_try_statement, maybe_build_inner_data_region           *)
(***************************************************************************)
make_data_region_try_statement(body) ==
  GTry(<<>>, <<body>>, <<[code |-> "call", id |-> <<>>, fn |-> "GOACC_data_end"]>>)

(* mutant: only artificial variables stay unmapped *)
kept_local_artificial_only(v, template) == DECL_ARTIFICIAL(v)

KeptLocal(v, template) ==
  DECL_ARTIFICIAL(v) \/ v.tcode = "const_decl" \/ template

RECURSIVE partition_vars(_, _, _, _)
partition_vars(chain, i, template, acc) ==
  IF i > Len(chain) THEN acc
  ELSE LET v == chain[i]
       IN IF KeptLocal(v, template)
          THEN partition_vars(chain, i + 1, template,
                 [acc EXCEPT !.artificial_vars = <<v>> \o @])
          ELSE partition_vars(chain, i + 1, template,
                 [acc EXCEPT !.inner_bind_vars = Append(@, v),
                             !.inner_data_clauses =
                                <<MapClause("alloc", v, FALSE)>> \o @])

maybe_build_inner_data_region(body, bind_vars, cleanup, template) ==
  LET p == partition_vars(bind_vars, 1, template,
             [artificial_vars |-> <<>>, inner_bind_vars |-> <<>>,
              inner_data_clauses |-> <<>>])
      body1 == IF p.artificial_vars # <<>>
               THEN GBind(<<>>, p.artificial_vars, <<body>>) ELSE body
  IN IF p.inner_data_clauses # <<>>
     THEN LET inner_data_region ==
                [code |-> "omp_target", kind |-> "oacc_data_kernels",
                 clauses |-> p.inner_data_clauses,
                 body |-> make_data_region_try_statement(body1)]
              bind_body == IF cleanup # <<>>
                           THEN GTry(<<>>, <<inner_data_region>>, cleanup)
                           ELSE inner_data_region
          IN GBind(<<>>, p.inner_bind_vars, <<bind_body>>)
     ELSE body1

(***************************************************************************)
(* decompose_kernels_region_body, first part: the num_gangs clause is cut  *)
(* out of the chain, nested binds are flattened, present clauses are added *)
(* for the collected variables, a leading try statement is unwrapped.      *)
(***************************************************************************)
FirstNumGangs(chain) ==
  LET at == {i \in 1..Len(chain) : chain[i].code = "num_gangs"}
  IN IF at = {} THEN 0 ELSE CHOOSE i \in at : \A j \in at : i <= j

(* mutant: the clause is found but left in the chain *)
cut_num_gangs_not_unlinked(chain) ==
  LET i == FirstNumGangs(chain)
  IN [num_gangs_clause |-> IF i = 0 THEN NULL ELSE chain[i],
      kernels_clauses |-> chain]

cut_num_gangs(chain) ==
  LET i == FirstNumGangs(chain)
  IN IF i = 0 THEN [num_gangs_clause |-> NULL, kernels_clauses |-> chain]
     ELSE [num_gangs_clause |-> chain[i],
           kernels_clauses |-> SubSeq(chain, 1, i - 1) \o SubSeq(chain, i + 1, Len(chain))]

RECURSIVE add_present_clauses(_, _, _)
add_present_clauses(bind_vars, i, present_clauses) ==
  IF i > Len(bind_vars) THEN present_clauses
  ELSE LET var == bind_vars[i]
       IN add_present_clauses(bind_vars, i + 1,
            IF ~DECL_ARTIFICIAL(var) /\ var.tcode # "const_decl"
            THEN <<MapClause("force_present", var, FALSE)>> \o present_clauses
            ELSE present_clauses)

unwrap_try(seq) ==
  IF seq # <<>> /\ seq[1].code = "try"
  THEN [inner_cleanup |-> seq[1].cleanup, body_sequence |-> seq[1].eval \o Tail(seq)]
  ELSE [inner_cleanup |-> <<>>, body_sequence |-> seq]

(***************************************************************************)
(* transform_kernels_region, first part: the data clauses of the kernels   *)
(* region are copied to the new data region.                               *)
(***************************************************************************)
NotCopiedKinds ==
  {"pointer", "to_pset", "force_tofrom", "firstprivate_pointer",
   "firstprivate_reference"}

copied_to_data_region(c) ==
  /\ c.code = "map"
  /\ c.kind \notin NotCopiedKinds
  /\ ~(c.kind = "alloc" /\ c.size_zero)
  /\ ((DECL_P(c.decl) /\ ~DECL_ARTIFICIAL(c.decl)) \/ ~DECL_P(c.decl))

(* mutant: the chain is left in the order it was built in *)
nreverse_missing(chain) == chain

nreverse(chain) == [i \in 1..Len(chain) |-> chain[Len(chain) + 1 - i]]

RECURSIVE collect_data_clauses(_, _, _)
collect_data_clauses(chain, i, acc) ==
  IF i > Len(chain) THEN acc
  ELSE LET c == chain[i]
       IN collect_data_clauses(chain, i + 1,
            IF copied_to_data_region(c)
            THEN <<MapClause(c.kind, c.decl, c.size_zero)>> \o acc
            ELSE IF c.code = "if" THEN <<c>> \o acc
            ELSE acc)

downgrade_copied(chain) ==
  [i \in 1..Len(chain) |->
     IF copied_to_data_region(chain[i])
     THEN [chain[i] EXCEPT !.kind = "force_present"] ELSE chain[i]]

(***************************************************************************)
(* The kernels regions the pass is run on.  A statement's id is its path   *)
(* in the body of the region, so every statement and every declaration is  *)
(* a distinct object.                                                      *)
(***************************************************************************)
UserVar(id) == Decl(<<"v", id>>, "var_decl", FALSE)
Temp(id) == Decl(<<"D", id>>, "var_decl", TRUE)

(* Top-level statements the scan tells apart: loops, bare or wrapped the   *)
(* way the C and the Fortran front ends wrap them, and sequential code.    *)
ScanStmts(i) ==
  { GOmpFor(<<i>>, <<>>),
    GAssign(<<i>>, Temp(<<i>>)),
    GAssign(<<i>>, UserVar(<<i>>)),
    GCall(<<i>>),
    GBind(<<i>>, <<UserVar(<<i>>)>>, <<GOmpFor(<<i, 1>>, <<[code |-> "gang"]>>)>>),
    GBind(<<i>>, <<UserVar(<<i>>)>>,
          <<GTry(<<i, 1>>, <<GOmpFor(<<i, 1, 1>>, <<[code |-> "seq"]>>)>>,
                 <<GAssign(<<i, 1, 2>>, UserVar(<<i>>))>>)>>),
    GBind(<<i>>, <<>>,
          <<GAssign(<<i, 1>>, Temp(<<i, 1>>)),
            GOmpFor(<<i, 2>>, <<[code |-> "independent"]>>)>>) }

RECURSIVE ScanBodies(_)
ScanBodies(n) ==
  IF n = 0 THEN {<<>>}
  ELSE {Append(b, s) : b \in ScanBodies(n - 1), s \in ScanStmts(n)}

(* Nested binds that flatten_binds eliminates, with and without variables  *)
(* of their own, one and two levels deep.                                  *)
BindVarChains(id) ==
  { <<>>, <<UserVar(id)>>, <<Temp(id)>>,
    <<UserVar(id), Decl(<<"c", id>>, "const_decl", FALSE)>> }

InnerBinds(id) == {GBind(id, vs, <<GCall(id \o <<1>>)>>) : vs \in BindVarChains(id)}

PlainBinds(id) ==
  {GBind(id, vs, <<GCall(id \o <<1>>)>>) : vs \in {<<>>, <<UserVar(id)>>}}

OuterBinds(id) ==
  {GBind(id, <<UserVar(id)>>, <<b1, b2>>) :
     b1 \in PlainBinds(id \o <<1>>), b2 \in PlainBinds(id \o <<2>>)}

NestStmts(i) == InnerBinds(<<i>>) \cup OuterBinds(<<i>>)

RECURSIVE NestBodies(_)
NestBodies(n) ==
  IF n = 0 THEN {<<>>}
  ELSE {Append(b, s) : b \in NestBodies(n - 1), s \in NestStmts(n)}

(* Bodies that start with a try statement.                                 *)
TryBodies ==
  LET evals == {<<>>, <<GCall(<<1, 1>>)>>, <<GOmpFor(<<1, 1>>, <<>>)>>,
                <<GCall(<<1, 1>>), GOmpFor(<<1, 2>>, <<>>)>>}
      rests == {<<>>, <<GCall(<<2>>)>>, <<GOmpFor(<<2>>, <<>>)>>}
      cleanups == {<<>>, <<GAssign(<<1, 0>>, UserVar(<<1>>))>>}
  IN {<<GTry(<<1>>, e, c)>> \o r : e \in evals, r \in rests, c \in cleanups}

(* The clauses of a kernels construct.                                     *)
ClauseOperands(i) ==
  { UserVar(<<i>>), Temp(<<i>>), Decl(<<"a", <<i>>>>, "mem_ref", FALSE) }

KernelsClauseChoices(i) ==
  {MapClause(k, d, FALSE) : k \in {"tofrom", "alloc"}, d \in ClauseOperands(i)}
  \cup {MapClause("alloc", UserVar(<<i>>), TRUE)}
  \cup {MapClause(k, UserVar(<<i>>), FALSE) : k \in NotCopiedKinds}
  \cup {IfClause, NumGangs(4), NumWorkers}

RECURSIVE ClauseChains(_)
ClauseChains(n) ==
  IF n = 0 THEN {<<>>}
  ELSE UNION {{Append(ch, c) :
                  c \in {x \in KernelsClauseChoices(n) :
                           x.code = "map" \/ \A j \in 1..(n - 1) : ch[j] # x}} :
               ch \in ClauseChains(n - 1)}

KernelsLocals == <<UserVar(<<0>>)>>

KernelsRegion(clauses, body) ==
  [code |-> "omp_target", kind |-> "oacc_kernels", clauses |-> clauses,
   body |-> GBind(<<0>>, KernelsLocals, body)]

ScanInputs ==
  {[region |-> KernelsRegion(ch, b), template |-> FALSE] :
     ch \in {<<>>, <<NumGangs(4)>>},
     b \in UNION {ScanBodies(n) : n \in 0..MaxStmts}}

NestInputs ==
  {[region |-> KernelsRegion(<<NumWorkers>>, b), template |-> t] :
     t \in BOOLEAN, b \in UNION {NestBodies(n) : n \in 1..MaxStmts}}

TryInputs ==
  {[region |-> KernelsRegion(<<>>, b), template |-> FALSE] : b \in TryBodies}

ClauseInputs ==
  {[region |-> KernelsRegion(ch, <<GCall(<<1>>), GOmpFor(<<2>>, <<>>)>>),
    template |-> FALSE] :
     ch \in UNION {ClauseChains(n) : n \in 1..MaxClauses}}

KernelsInputs == ScanInputs \cup NestInputs \cup TryInputs \cup ClauseInputs

(***************************************************************************)
(* The variables of the passes that are not running.                       *)
(***************************************************************************)
NoKernels ==
  /\ kernels_region = NULL /\ is_template = FALSE /\ data_clauses = <<>>
  /\ num_gangs_clause = NULL /\ kernels_clauses = <<>> /\ inner_bind_vars = <<>>
  /\ inner_cleanup = <<>> /\ body_sequence = <<>> /\ region_body = <<>>
  /\ gang_single_seq = <<>> /\ only_simple_assignments = TRUE
  /\ new_region = NULL /\ original_region = NULL

NoClauses == omp_clauses = <<>> /\ symtab = <<>> /\ mark = <<>>

NoAtomic == atomic_code = NULL

NoParse ==
  directive_text = <<>> /\ parser = NULL /\ cp = NULL /\ matched = "none"

NoContext ==
  /\ omp_current_ctx = <<>> /\ omp_current_do_code = NULL
  /\ omp_current_do_collapse = 0 /\ saved_state = <<>>
  /\ call_stack = <<>> /\ constructs = <<>>

NoDo == do_nest = <<>> /\ code_op = "EXEC_NOP" /\ NoAtomic

(***************************************************************************)
(* The conversion of one kernels region, scan_kernels calling              *)
(* transform_kernels_region, in the steps the code takes.                  *)
(***************************************************************************)
KernelsInit ==
  /\ pc = "transform_kernels_region"
  /\ \E in \in KernelsInputs :
       /\ kernels_region = in.region
       /\ original_region = in.region
       /\ is_template = in.template
  /\ data_clauses = <<>> /\ num_gangs_clause = NULL /\ kernels_clauses = <<>>
  /\ inner_bind_vars = <<>> /\ inner_cleanup = <<>> /\ body_sequence = <<>>
  /\ region_body = <<>> /\ gang_single_seq = <<>>
  /\ only_simple_assignments = TRUE /\ new_region = NULL
  /\ NoClauses /\ NoDo /\ NoParse /\ NoContext /\ errors = <<>>

(* transform_kernels_region up to the call of decompose_kernels_region_body *)
transform_kernels_region ==
  /\ pc = "transform_kernels_region"
  /\ data_clauses' = nreverse(collect_data_clauses(kernels_region.clauses, 1, <<>>))
  /\ kernels_clauses' = downgrade_copied(kernels_region.clauses)
  /\ kernels_region' = [kernels_region EXCEPT !.clauses = downgrade_copied(@)]
  /\ pc' = "decompose_kernels_region_body"
  /\ UNCHANGED <<is_template, num_gangs_clause, inner_bind_vars, inner_cleanup,
                 body_sequence, region_body, gang_single_seq,
                 only_simple_assignments, new_region, original_region,
                 cvars, dvars, pvars, xvars, errors>>

(* decompose_kernels_region_body up to its loop over the statements *)
decompose_kernels_region_body ==
  /\ pc = "decompose_kernels_region_body"
  /\ LET cut == cut_num_gangs(kernels_clauses)
         flat == flatten_binds(kernels_region.body, FALSE)
         try == unwrap_try(flat.body)
     IN /\ num_gangs_clause' = cut.num_gangs_clause
        /\ inner_bind_vars' = flat.vars
        /\ kernels_region' = [kernels_region EXCEPT !.body.body = flat.body]
        /\ kernels_clauses' = add_present_clauses(flat.vars, 1, cut.kernels_clauses)
        /\ inner_cleanup' = try.inner_cleanup
        /\ body_sequence' = try.body_sequence
  /\ region_body' = <<>> /\ gang_single_seq' = <<>>
  /\ only_simple_assignments' = TRUE
  /\ pc' = "scan"
  /\ UNCHANGED <<is_template, data_clauses, new_region, original_region,
                 cvars, dvars, pvars, xvars, errors>>

(* mutant: the left-hand side is not looked at *)
any_assignment(stmt) == stmt.code = "assign"

is_simple_assignment(stmt) ==
  /\ stmt.code = "assign"
  /\ stmt.lhs.tcode = "var_decl"
  /\ DECL_ARTIFICIAL(stmt.lhs)

(* mutant: any pending run is grouped with the loop *)
fold_into_loop_always(seq, only_simple) == seq # <<>>

(* Whether the pending run is grouped with the loop that follows it. *)
fold_into_loop(seq, only_simple) == seq # <<>> /\ only_simple

(* one iteration of the loop over the statements of the body *)
scan_stmt ==
  /\ pc = "scan"
  /\ body_sequence # <<>>
  /\ LET stmt == Head(body_sequence)
         omp_for == top_level_omp_for_in_stmt(stmt)
     IN IF omp_for # NULL
        THEN LET emitted ==
                   IF gang_single_seq # <<>>
                      /\ ~fold_into_loop(gang_single_seq, only_simple_assignments)
                   THEN Append(region_body,
                               make_gang_single_region(gang_single_seq, kernels_clauses))
                   ELSE region_body
                 wrapped ==
                   IF fold_into_loop(gang_single_seq, only_simple_assignments)
                   THEN GBind(<<>>, <<>>, Append(gang_single_seq, stmt))
                   ELSE stmt
             IN /\ region_body' =
                     Append(emitted,
                            make_gang_parallel_loop_region(omp_for, wrapped,
                               num_gangs_clause, kernels_clauses))
                /\ gang_single_seq' = <<>>
                /\ only_simple_assignments' = TRUE
        ELSE /\ gang_single_seq' = Append(gang_single_seq, stmt)
             /\ only_simple_assignments' =
                  (only_simple_assignments /\ is_simple_assignment(stmt))
             /\ UNCHANGED region_body
  /\ body_sequence' = Tail(body_sequence)
  /\ UNCHANGED <<pc, kernels_region, is_template, data_clauses, num_gangs_clause,
                 kernels_clauses, inner_bind_vars, inner_cleanup, new_region,
                 original_region, cvars, dvars, pvars, xvars, errors>>

(* mutant: the pending statements are not looked at *)
needs_dummy_no_region(body, seq) == body = <<>>

(* Whether a no-op is emitted to keep the construct. *)
needs_dummy(body, seq) == body = <<>> /\ seq = <<>>

(* the rest of decompose_kernels_region_body and of transform_kernels_region *)
finish_kernels_region ==
  /\ pc = "scan"
  /\ body_sequence = <<>>
  /\ LET seq == IF needs_dummy(region_body, gang_single_seq)
                THEN Append(gang_single_seq, GNop) ELSE gang_single_seq
         regions == IF seq # <<>>
                    THEN Append(region_body,
                                make_gang_single_region(seq, kernels_clauses))
                    ELSE region_body
         body == maybe_build_inner_data_region(
                   GBind(<<>>, kernels_region.body.vars, regions),
                   inner_bind_vars, inner_cleanup, is_template)
     IN /\ gang_single_seq' = seq
        /\ region_body' = regions
        /\ new_region' =
             [code |-> "omp_target", kind |-> "oacc_data_kernels",
              clauses |-> data_clauses,
              body |-> make_data_region_try_statement(body)]
  /\ pc' = "done"
  /\ UNCHANGED <<kernels_region, is_template, data_clauses, num_gangs_clause,
                 kernels_clauses, inner_bind_vars, inner_cleanup, body_sequence,
                 only_simple_assignments, original_region, cvars, dvars, pvars, xvars, errors>>

KernelsNext ==
  \/ transform_kernels_region
  \/ decompose_kernels_region_body
  \/ scan_stmt
  \/ finish_kernels_region

SpecKernels == KernelsInit /\ [][KernelsNext]_vars

(***************************************************************************)
(* Properties of the conversion of a kernels region.                       *)
(***************************************************************************)
GangSingle == "oacc_parallel_kernels_gang_single"
Parallelized == "oacc_parallel_kernels_parallelized"

(* The statements the scan went over: the flattened body of the region,    *)
(* with a leading try statement replaced by its body.                      *)
Scanned == unwrap_try(kernels_region.body.body).body_sequence

IsLoopAt(i) == top_level_omp_for_in_stmt(Scanned[i]) # NULL

(* <<a, b>>: a maximal run of statements that are not top-level loops *)
Runs ==
  {r \in (1..Len(Scanned)) \X (1..Len(Scanned)) :
     /\ r[1] <= r[2]
     /\ \A k \in r[1]..r[2] : ~IsLoopAt(k)
     /\ (r[1] = 1 \/ IsLoopAt(r[1] - 1))
     /\ (r[2] = Len(Scanned) \/ IsLoopAt(r[2] + 1))}

(* an assignment whose left-hand side is an artificial variable *)
SetupAssignment(stmt) ==
  stmt.code = "assign" /\ stmt.lhs.tcode = "var_decl" /\ stmt.lhs.artificial

(* a run that is loop setup: only such assignments, and a loop follows *)
FoldedRun(r) ==
  /\ r[2] < Len(Scanned)
  /\ \A k \in r[1]..r[2] : SetupAssignment(Scanned[k])

(* Where each child region starts in the scanned statements, and its kind. *)
Markers ==
  {<<i, Parallelized>> : i \in {k \in 1..Len(Scanned) : IsLoopAt(k)}}
  \cup {<<r[1], GangSingle>> : r \in {x \in Runs : ~FoldedRun(x)}}

ExpectedKinds ==
  [n \in 1..Cardinality(Markers) |->
     (CHOOSE m \in Markers :
        Cardinality({o \in Markers : o[1] < m[1]}) = n - 1)[2]]

RegionKinds == [i \in 1..Len(region_body) |-> region_body[i].kind]

(* The ids of the scanned statements a child region holds, in order. *)
IdsOf(seq) == [i \in 1..Len(seq) |-> seq[i].id]

HeldIds(region) ==
  IF region.kind = GangSingle THEN IdsOf(region.body.body)
  ELSE LET stmt == region.body.body[1]
       IN IF stmt.code = "bind" /\ stmt.id = <<>>
          THEN IdsOf(stmt.body) ELSE <<stmt.id>>

(* C1: the child regions are, in source order, one parallelized region per *)
(* top-level loop and one gang-single region per maximal run of other      *)
(* statements that is not folded as loop setup; loop, statement, loop      *)
(* gives three children, and no two gang-single regions are adjacent.      *)
C1_RegionsFollowLoopsAndRuns ==
  pc = "done" /\ Scanned # <<>> =>
    /\ RegionKinds = ExpectedKinds
    /\ \A i \in 1..(Len(region_body) - 1) :
         ~(RegionKinds[i] = GangSingle /\ RegionKinds[i + 1] = GangSingle)
    /\ (/\ Len(Scanned) = 3
        /\ IsLoopAt(1) /\ ~IsLoopAt(2) /\ IsLoopAt(3)
        /\ ~SetupAssignment(Scanned[2])
        => RegionKinds = <<Parallelized, GangSingle, Parallelized>>)

C1_Witness ==
  /\ pc = "done"
  /\ Len(Scanned) = 3
  /\ IsLoopAt(1) /\ ~IsLoopAt(2) /\ IsLoopAt(3)
  /\ ~SetupAssignment(Scanned[2])
  /\ Len(region_body) = 3

(* C2: a pending run of assignments to artificial variables before a loop  *)
(* gets no gang-single region, it is wrapped with the loop in one scope in *)
(* the loop's region; a run with any other statement goes whole into a     *)
(* gang-single region and the loop's region holds the loop alone.          *)
C2_SetupIsFoldedIntoLoop ==
  pc = "done" =>
    /\ \A r \in Runs :
         r[2] < Len(Scanned) =>
           LET run == SubSeq(Scanned, r[1], r[2])
               loop == Scanned[r[2] + 1]
           IN IF \A k \in 1..Len(run) : SetupAssignment(run[k])
              THEN /\ \E i \in 1..Len(region_body) :
                        /\ region_body[i].kind = Parallelized
                        /\ HeldIds(region_body[i]) = IdsOf(run) \o <<loop.id>>
                        /\ region_body[i].body.body[1].vars = <<>>
                        /\ SubSeq(region_body[i].body.body[1].body, 1, Len(run)) = run
                   /\ \A i \in 1..Len(region_body) :
                        region_body[i].kind = GangSingle =>
                          \A k \in 1..Len(run) :
                            \A j \in 1..Len(HeldIds(region_body[i])) :
                              HeldIds(region_body[i])[j] # run[k].id
              ELSE \E i \in 1..(Len(region_body) - 1) :
                        /\ region_body[i].kind = GangSingle
                        /\ region_body[i].body.body = run
                        /\ region_body[i + 1].kind = Parallelized
                        /\ HeldIds(region_body[i + 1]) = <<loop.id>>
    /\ (/\ Len(Scanned) = 2 /\ SetupAssignment(Scanned[1]) /\ IsLoopAt(2)
        => Len(region_body) = 1)

C2_Witness ==
  /\ pc = "done"
  /\ Len(Scanned) = 2 /\ SetupAssignment(Scanned[1]) /\ IsLoopAt(2)
  /\ Len(region_body) = 1
  /\ region_body[1].kind = Parallelized

(* C3: there is always a child region; an empty body gives one gang-single *)
(* region holding a single no-op, and a no-op is made in no other case.    *)
C3_EmptyBodyGivesPlaceholder ==
  pc = "done" =>
    /\ Len(region_body) >= 1
    /\ (Scanned = <<>> =>
          /\ Len(region_body) = 1
          /\ region_body[1].kind = GangSingle
          /\ region_body[1].body.body = <<GNop>>)
    /\ (Scanned # <<>> =>
          \A i \in 1..Len(region_body) :
            region_body[i].kind = GangSingle =>
              \A j \in 1..Len(region_body[i].body.body) :
                region_body[i].body.body[j].code # "nop")

C3_Witness ==
  /\ pc = "done"
  /\ original_region.body.body = <<>>
  /\ Len(region_body) = 1
  /\ region_body[1].body.body = <<GNop>>

(* C4: every gang-single child carries exactly one num_gangs clause, with  *)
(* value 1; every parallelized child carries exactly one num_gangs clause  *)
(* with the value of the kernels region if that has one, and none if not.  *)
NumGangsValues(chain) ==
  LET at == {i \in 1..Len(chain) : chain[i].code = "num_gangs"}
  IN [n \in 1..Cardinality(at) |->
        chain[CHOOSE i \in at : Cardinality({j \in at : j < i}) = n - 1].val]

C4_NumGangsRouting ==
  pc = "done" =>
    \A i \in 1..Len(region_body) :
      IF region_body[i].kind = GangSingle
      THEN NumGangsValues(region_body[i].clauses) = <<1>>
      ELSE NumGangsValues(region_body[i].clauses)
             = NumGangsValues(original_region.clauses)

C4_Witness ==
  /\ pc = "done"
  /\ NumGangsValues(original_region.clauses) = <<4>>
  /\ \E i, j \in 1..Len(region_body) :
       /\ region_body[i].kind = GangSingle
       /\ region_body[j].kind = Parallelized
       /\ NumGangsValues(region_body[j].clauses) = <<4>>

(* C5: the chain flatten_binds returns holds every variable declared by a  *)
(* flattened nested scope exactly once.                                    *)
RECURSIVE DeclaredInFlattened(_)
DeclaredInFlattened(body) ==
  UNION {IF body[i].code = "bind" /\ top_level_omp_for_in_stmt(body[i]) = NULL
         THEN {body[i].vars[k] : k \in 1..Len(body[i].vars)}
              \cup DeclaredInFlattened(body[i].body)
         ELSE {} : i \in 1..Len(body)}

C5_FlattenKeepsEveryVariable ==
  pc \in {"scan", "done"} =>
    \A v \in DeclaredInFlattened(original_region.body.body) :
      Cardinality({k \in 1..Len(inner_bind_vars) : inner_bind_vars[k] = v}) = 1

(* C6: every map clause of the kernels region that is not of an excluded   *)
(* kind and maps a non-artificial declaration or an expression is copied,  *)
(* kind kept, to the data region, in the order of the kernels region, and  *)
(* becomes force-present on the inner chain; no other map clause is copied *)
(* or changed.                                                             *)
C6_Lifted(c) ==
  /\ c.code = "map"
  /\ c.kind \notin {"pointer", "to_pset", "force_tofrom", "firstprivate_pointer",
                    "firstprivate_reference"}
  /\ ~(c.kind = "alloc" /\ c.size_zero)
  /\ (c.decl.tcode = "mem_ref" \/ ~c.decl.artificial)

C6_IsMap(c) == c.code = "map"

C6_MapClausesLifted ==
  pc # "transform_kernels_region" =>
    /\ SelectSeq(data_clauses, C6_IsMap) = SelectSeq(original_region.clauses, C6_Lifted)
    /\ Len(kernels_region.clauses) = Len(original_region.clauses)
    /\ \A i \in 1..Len(original_region.clauses) :
         kernels_region.clauses[i] =
           IF C6_Lifted(original_region.clauses[i])
           THEN [original_region.clauses[i] EXCEPT !.kind = "force_present"]
           ELSE original_region.clauses[i]
    /\ (pc = "done" =>
          \A r \in 1..Len(region_body) :
            \A i \in 1..Len(original_region.clauses) :
              original_region.clauses[i].code = "map" =>
                \E j \in 1..Len(region_body[r].clauses) :
                  region_body[r].clauses[j] = kernels_region.clauses[i])

C6_Witness ==
  /\ pc = "done"
  /\ Len(original_region.clauses) = 2
  /\ C6_Lifted(original_region.clauses[1])
  /\ C6_Lifted(original_region.clauses[2])
  /\ original_region.clauses[1].kind # original_region.clauses[2].kind
  /\ Len(data_clauses) = 2

(***************************************************************************)
(* gcc/fortran/openmp.c: the clause lists of a directive.  The list        *)
(* classes in the order of the OMP_LIST enumeration, which is the order of *)
(* clause_names followed by the reduction operators.                       *)
(***************************************************************************)
OMP_LISTS ==
  <<"PRIVATE", "FIRSTPRIVATE", "LASTPRIVATE", "COPYPRIVATE", "SHARED",
    "COPYIN", "UNIFORM", "ALIGNED", "LINEAR", "DEPEND_IN", "DEPEND_OUT",
    "PLUS", "MULT", "SUB", "AND", "OR", "EQV", "NEQV", "MAX", "MIN",
    "IAND", "IOR", "IEOR">>

ListNames == {OMP_LISTS[i] : i \in 1..Len(OMP_LISTS)}

ReductionLists ==
  {"PLUS", "MULT", "SUB", "AND", "OR", "EQV", "NEQV", "MAX", "MIN",
   "IAND", "IOR", "IEOR"}

BasicTypes ==
  {"BT_INTEGER", "BT_REAL", "BT_COMPLEX", "BT_LOGICAL", "BT_CHARACTER",
   "BT_DERIVED"}

(* a gfc_symbol: its type and the attributes the resolution looks at *)
Symbol(type, threadprivate) ==
  [type |-> type, threadprivate |-> threadprivate, cray_pointee |-> FALSE,
   pointer |-> FALSE, cray_pointer |-> FALSE, allocatable |-> FALSE,
   alloc_comp |-> FALSE, c_ptr |-> FALSE, assumed_size |-> FALSE,
   in_namelist |-> FALSE]

EmptyLists == [l \in ListNames |-> <<>>]

gfc_get_omp_clauses ==
  [lists |-> EmptyLists, collapse |-> 0,
   if_expr |-> NULL, final_expr |-> NULL, num_threads |-> NULL,
   default_sharing |-> "OMP_DEFAULT_UNKNOWN", sched_kind |-> "OMP_SCHED_NONE",
   chunk_size |-> NULL, ordered |-> FALSE, untied |-> FALSE,
   mergeable |-> FALSE, inbranch |-> FALSE, notinbranch |-> FALSE,
   proc_bind |-> "OMP_PROC_BIND_UNKNOWN", safelen_expr |-> NULL,
   simdlen_expr |-> NULL]

(* gfc_numeric_ts is defined outside the files at hand: a numeric type is  *)
(* integer, real or complex.                                               *)
gfc_numeric_ts(type) == type \in {"BT_INTEGER", "BT_REAL", "BT_COMPLEX"}

(* a diagnostic: the format string, its %s argument that is not the symbol  *)
(* (clause name, operator or directive) and the symbol or loop level named *)
Error(msg, arg, sym) == [msg |-> msg, arg |-> arg, sym |-> sym, level |-> 0]

(* the entries of the lists named by the sequence names, in order *)
RECURSIVE EntriesOf(_, _)
EntriesOf(lists, names) ==
  IF names = <<>> THEN <<>>
  ELSE lists[Head(names)] \o EntriesOf(lists, Tail(names))

IsNotExempt_shared_exempt(list) ==
  /\ list # "FIRSTPRIVATE"
  /\ list # "LASTPRIVATE"
  /\ list # "ALIGNED"
  /\ list # "DEPEND_IN"
  /\ list # "DEPEND_OUT"
  /\ list # "SHARED"

IsNotExempt(list) ==
  /\ list # "FIRSTPRIVATE"
  /\ list # "LASTPRIVATE"
  /\ list # "ALIGNED"
  /\ list # "DEPEND_IN"
  /\ list # "DEPEND_OUT"

(* One loop over list entries that reads and writes gfc_symbol.mark:       *)
(*   "clear":       mark = 0                                               *)
(*   "check_set":   if (mark) error; else mark = 1                         *)
(*   "check_clear": if (mark) { error; mark = 0; }                         *)
RECURSIVE mark_loop(_, _, _, _)
mark_loop(entries, i, st, mode) ==
  IF i > Len(entries) THEN st
  ELSE LET sym == entries[i]
           multiple == Error("Symbol present on multiple clauses", "", sym)
       IN mark_loop(entries, i + 1,
            IF mode = "clear" THEN [st EXCEPT !.mark[sym] = 0]
            ELSE IF st.mark[sym] = 1
            THEN [mark |-> IF mode = "check_clear"
                           THEN [st.mark EXCEPT ![sym] = 0] ELSE st.mark,
                  errors |-> Append(st.errors, multiple)]
            ELSE IF mode = "check_set" THEN [st EXCEPT !.mark[sym] = 1]
            ELSE st,
            mode)

(* the name a list is reported under *)
clause_name(list) ==
  IF list \in ReductionLists THEN "REDUCTION"
  ELSE IF list \in {"DEPEND_IN", "DEPEND_OUT"} THEN "DEPEND"
  ELSE list

reduction_type_ok_max_any_numeric(list, type) ==
  CASE list \in {"PLUS", "MULT", "SUB", "MAX", "MIN"} -> gfc_numeric_ts(type)
    [] list \in {"AND", "OR", "EQV", "NEQV"} -> type = "BT_LOGICAL"
    [] list \in {"IAND", "IOR", "IEOR"} -> type = "BT_INTEGER"
    [] OTHER -> TRUE

(* the type test of the reduction operators, switch (list) *)
reduction_type_ok(list, type) ==
  CASE list \in {"PLUS", "MULT", "SUB"} -> gfc_numeric_ts(type)
    [] list \in {"AND", "OR", "EQV", "NEQV"} -> type = "BT_LOGICAL"
    [] list \in {"MAX", "MIN"} -> type = "BT_INTEGER" \/ type = "BT_REAL"
    [] list \in {"IAND", "IOR", "IEOR"} -> type = "BT_INTEGER"
    [] OTHER -> TRUE

(* the diagnostic of a failed type test, with the operator as it is printed *)
reduction_type_error(list, sym) ==
  CASE list \in {"PLUS", "MULT", "SUB"} ->
         Error("REDUCTION variable must be of numeric type",
               IF list = "PLUS" THEN "+" ELSE IF list = "MULT" THEN "*" ELSE "-",
               sym)
    [] list \in {"AND", "OR", "EQV", "NEQV"} ->
         Error("REDUCTION variable must be LOGICAL",
               IF list = "AND" THEN ".AND." ELSE IF list = "OR" THEN ".OR."
               ELSE IF list = "EQV" THEN ".EQV." ELSE ".NEQV.",
               sym)
    [] list \in {"MAX", "MIN"} ->
         Error("REDUCTION variable must be INTEGER or REAL",
               IF list = "MAX" THEN "MAX" ELSE "MIN", sym)
    [] OTHER ->
         Error("REDUCTION variable must be INTEGER",
               IF list = "IAND" THEN "IAND"
               ELSE IF list = "MULT" THEN "IOR" ELSE "IEOR",
               sym)

Cond(b, e) == IF b THEN <<e>> ELSE <<>>

(* the checks of one entry of LIST, for an entry without an expression *)
entry_errors(list, sym, a) ==
  CASE list = "COPYIN" ->
         Cond(~a.threadprivate,
              Error("Non-THREADPRIVATE object in COPYIN clause", "", sym))
         \o Cond(a.type = "BT_DERIVED" /\ a.alloc_comp,
                 Error("COPYIN clause object has ALLOCATABLE components", "", sym))
    [] list = "COPYPRIVATE" ->
         Cond(a.assumed_size,
              Error("Assumed size array in COPYPRIVATE clause", "", sym))
         \o Cond(a.type = "BT_DERIVED" /\ a.alloc_comp,
                 Error("COPYPRIVATE clause object has ALLOCATABLE components", "", sym))
    [] list = "SHARED" ->
         Cond(a.threadprivate,
              Error("THREADPRIVATE object in SHARED clause", "", sym))
         \o Cond(a.cray_pointee, Error("Cray pointee in SHARED clause", "", sym))
    [] list = "ALIGNED" ->
         Cond(~a.pointer /\ ~a.allocatable /\ ~a.cray_pointer
              /\ (a.type # "BT_DERIVED" \/ ~a.c_ptr),
              Error("in ALIGNED clause must be POINTER, ALLOCATABLE, Cray pointer or C_PTR",
                    "", sym))
    [] list \in {"DEPEND_IN", "DEPEND_OUT"} -> <<>>
    [] OTHER ->
         LET name == clause_name(list)
             reduction == list \in ReductionLists
         IN Cond(a.threadprivate, Error("THREADPRIVATE object in clause", name, sym))
            \o Cond(a.cray_pointee, Error("Cray pointee in clause", name, sym))
            \o Cond(list # "PRIVATE" /\ a.pointer /\ reduction,
                    Error("POINTER object in clause", name, sym))
            \o Cond(list # "PRIVATE" /\ ~reduction
                    /\ a.type = "BT_DERIVED" /\ a.alloc_comp,
                    Error("clause object has ALLOCATABLE components", name, sym))
            \o Cond(list # "PRIVATE" /\ a.cray_pointer /\ reduction,
                    Error("Cray pointer in clause", name, sym))
            \o Cond(a.assumed_size, Error("Assumed size array in clause", name, sym))
            \o Cond(a.in_namelist /\ ~reduction,
                    Error("Variable in clause is used in NAMELIST statement", name, sym))
            \o Cond(reduction /\ ~reduction_type_ok(list, a.type),
                    reduction_type_error(list, sym))
            \o Cond(list = "LINEAR" /\ a.type # "BT_INTEGER",
                    Error("LINEAR variable must be INTEGER", "", sym))

RECURSIVE list_errors(_, _, _, _)
list_errors(list, entries, i, tab) ==
  IF i > Len(entries) THEN <<>>
  ELSE entry_errors(list, entries[i], tab[entries[i]])
       \o list_errors(list, entries, i + 1, tab)

RECURSIVE all_list_errors(_, _, _)
all_list_errors(lists, names, tab) ==
  IF names = <<>> THEN <<>>
  ELSE list_errors(Head(names), lists[Head(names)], 1, tab)
       \o all_list_errors(lists, Tail(names), tab)

keep_lastprivate_marks(lists, st) == st

(* the second pass over the lastprivate list begins by taking the marks    *)
(* of its symbols back                                                     *)
clear_lastprivate_marks(lists, st) ==
  mark_loop(lists["LASTPRIVATE"], 1, st, "clear")

(***************************************************************************)
(* resolve_omp_clauses, for the clauses of a directive (CODE is not NULL), *)
(* whose symbols are variables: the marks of the symbols and the errors    *)
(* reported.                                                               *)
(***************************************************************************)
resolve_omp_clauses(clauses, marks, tab) ==
  LET lists == clauses.lists
      s0 == mark_loop(EntriesOf(lists, OMP_LISTS), 1,
                      [mark |-> marks, errors |-> <<>>], "clear")
      s1 == mark_loop(EntriesOf(lists, SelectSeq(OMP_LISTS, IsNotExempt)), 1,
                      s0, "check_set")
      s2 == mark_loop(EntriesOf(lists, <<"FIRSTPRIVATE", "LASTPRIVATE">>), 1,
                      s1, "check_clear")
      s3 == mark_loop(lists["FIRSTPRIVATE"], 1, s2, "check_set")
      s4 == clear_lastprivate_marks(lists, s3)
      s5 == mark_loop(lists["LASTPRIVATE"], 1, s4, "check_set")
      s6 == mark_loop(lists["ALIGNED"], 1, s5, "clear")
      s7 == mark_loop(lists["ALIGNED"], 1, s6, "check_set")
  IN [mark |-> s7.mark,
      errors |-> s7.errors \o all_list_errors(lists, OMP_LISTS, tab)]

(***************************************************************************)
(* The clauses of a directive other than a loop directive: the parser      *)
(* appends the variables it matches to the lists, then the directive is    *)
(* resolved.  Nothing at parse time rejects a symbol that is listed twice. *)
(***************************************************************************)
MaxEntries == 2

Syms == {"x", "y"}

ClauseDirectives ==
  {"EXEC_OMP_CANCEL", "EXEC_OMP_PARALLEL_WORKSHARE", "EXEC_OMP_PARALLEL",
   "EXEC_OMP_PARALLEL_SECTIONS", "EXEC_OMP_SECTIONS", "EXEC_OMP_SINGLE",
   "EXEC_OMP_TASK", "EXEC_OMP_WORKSHARE"}

NumEntries(lists) == Len(EntriesOf(lists, OMP_LISTS))

ClausesInit ==
  /\ pc = "gfc_match_omp_clauses"
  /\ omp_clauses = gfc_get_omp_clauses
  /\ symtab = [s \in Syms |->
                 Symbol(IF s = "x" THEN "BT_LOGICAL" ELSE "BT_INTEGER", FALSE)]
  /\ mark \in [Syms -> {0, 1}]
  /\ errors = <<>>
  /\ do_nest = <<>> /\ code_op = "EXEC_OMP_PARALLEL" /\ NoAtomic
  /\ NoKernels /\ NoParse /\ NoContext

ReductionInit ==
  /\ pc = "gfc_match_omp_clauses"
  /\ omp_clauses = gfc_get_omp_clauses
  /\ \E t \in BasicTypes :
       symtab = [s \in Syms |->
                   Symbol(IF s = "x" THEN t ELSE "BT_INTEGER", FALSE)]
  /\ mark = [s \in Syms |-> 0]
  /\ errors = <<>>
  /\ do_nest = <<>> /\ code_op = "EXEC_OMP_PARALLEL" /\ NoAtomic
  /\ NoKernels /\ NoParse /\ NoContext

gfc_match_omp_variable_list(list, sym) ==
  /\ pc = "gfc_match_omp_clauses"
  /\ NumEntries(omp_clauses.lists) < MaxEntries
  /\ omp_clauses' = [omp_clauses EXCEPT !.lists[list] = Append(@, sym)]
  /\ UNCHANGED <<pc, kvars, symtab, mark, errors, dvars, pvars, xvars>>

gfc_resolve_omp_directive ==
  /\ pc = "gfc_match_omp_clauses"
  /\ code_op \in ClauseDirectives
  /\ LET r == resolve_omp_clauses(omp_clauses, mark, symtab)
     IN /\ mark' = r.mark
        /\ errors' = errors \o r.errors
  /\ pc' = "resolved"
  /\ UNCHANGED <<kvars, omp_clauses, symtab, dvars, pvars, xvars>>

ClausesNext ==
  \/ \E list \in ListNames, sym \in Syms : gfc_match_omp_variable_list(list, sym)
  \/ gfc_resolve_omp_directive

SpecClauses == ClausesInit /\ [][ClausesNext]_vars

SpecReduction == ReductionInit /\ [][ClausesNext]_vars

(***************************************************************************)
(* Properties of the resolved clauses.                                     *)
(***************************************************************************)
Occurrences(list, s) ==
  Cardinality({i \in 1..Len(omp_clauses.lists[list]) : omp_clauses.lists[list][i] = s})

Reported(msg, s) ==
  Cardinality({i \in 1..Len(errors) : errors[i].msg = msg /\ errors[i].sym = s})

MultipleErrors(s) == Reported("Symbol present on multiple clauses", s)

ExemptClasses ==
  {"FIRSTPRIVATE", "LASTPRIVATE", "ALIGNED", "DEPEND_IN", "DEPEND_OUT"}

ExclusiveClassesOf(s) ==
  {l \in ListNames \ ExemptClasses : Occurrences(l, s) > 0}

OnceAtMost(s) == \A l \in ListNames : Occurrences(l, s) <= 1

(* C7: a symbol listed once in each of two distinct classes outside        *)
(* firstprivate, lastprivate, aligned and the depend classes (and not on   *)
(* firstprivate or lastprivate) gets exactly one "present on multiple      *)
(* clauses" error; a symbol listed once in only one such class gets none.  *)
C7_ExclusiveClasses ==
  pc = "resolved" =>
    \A s \in Syms :
      (/\ OnceAtMost(s)
       /\ Occurrences("FIRSTPRIVATE", s) = 0
       /\ Occurrences("LASTPRIVATE", s) = 0)
      => /\ Cardinality(ExclusiveClassesOf(s)) = 2 => MultipleErrors(s) = 1
         /\ Cardinality(ExclusiveClassesOf(s)) <= 1 => MultipleErrors(s) = 0

C7_Witness ==
  /\ pc = "resolved"
  /\ omp_clauses.lists["PRIVATE"] = <<"x">>
  /\ omp_clauses.lists["SHARED"] = <<"x">>
  /\ MultipleErrors("x") = 1

(* C8: a symbol listed once on firstprivate and once on lastprivate and on *)
(* no other class gets no "present on multiple clauses" error; a symbol on *)
(* firstprivate or lastprivate and also on another class that is not       *)
(* aligned or depend gets at least one.                                    *)
C8_FirstLastPrivateOverlap ==
  pc = "resolved" =>
    \A s \in Syms :
      /\ (/\ Occurrences("FIRSTPRIVATE", s) = 1
          /\ Occurrences("LASTPRIVATE", s) = 1
          /\ \A l \in ListNames \ {"FIRSTPRIVATE", "LASTPRIVATE"} :
               Occurrences(l, s) = 0)
         => MultipleErrors(s) = 0
      /\ (/\ Occurrences("FIRSTPRIVATE", s) + Occurrences("LASTPRIVATE", s) > 0
          /\ ExclusiveClassesOf(s) # {})
         => MultipleErrors(s) >= 1

C8_Witness ==
  /\ pc = "resolved"
  /\ omp_clauses.lists["FIRSTPRIVATE"] = <<"x">>
  /\ omp_clauses.lists["LASTPRIVATE"] = <<"x">>
  /\ errors = <<>>

C9_Allowed(list, type) ==
  \/ list \in {"PLUS", "MULT", "SUB"} /\ type \in {"BT_INTEGER", "BT_REAL", "BT_COMPLEX"}
  \/ list \in {"AND", "OR", "EQV", "NEQV"} /\ type = "BT_LOGICAL"
  \/ list \in {"MAX", "MIN"} /\ type \in {"BT_INTEGER", "BT_REAL"}
  \/ list \in {"IAND", "IOR", "IEOR"} /\ type = "BT_INTEGER"

C9_TypeErrors(list, s) ==
  Reported(IF list \in {"PLUS", "MULT", "SUB"}
             THEN "REDUCTION variable must be of numeric type"
           ELSE IF list \in {"AND", "OR", "EQV", "NEQV"}
             THEN "REDUCTION variable must be LOGICAL"
           ELSE IF list \in {"MAX", "MIN"}
             THEN "REDUCTION variable must be INTEGER or REAL"
           ELSE "REDUCTION variable must be INTEGER", s)

(* C9: for every reduction class and every type of the variable, a type    *)
(* error is reported for the variable exactly when the type is not one the *)
(* operator allows: numeric for + * -, logical for .and. .or. .eqv.        *)
(* .neqv., integer or real for max min, integer for iand ior ieor.         *)
C9_ReductionTypeCheck ==
  pc = "resolved" =>
    \A list \in ReductionLists, s \in Syms :
      Occurrences(list, s) > 0 =>
        (C9_TypeErrors(list, s) > 0 <=> ~C9_Allowed(list, symtab[s].type))

C9_Witness ==
  /\ pc = "resolved"
  /\ symtab["x"].type = "BT_LOGICAL"
  /\ omp_clauses.lists["PLUS"] = <<"x">>
  /\ omp_clauses.lists["AND"] = <<"x">>
  /\ C9_TypeErrors("PLUS", "x") = 1
  /\ C9_TypeErrors("AND", "x") = 0

(***************************************************************************)
(* resolve_omp_do: the loops under a loop directive.  A statement of the   *)
(* nest is its op, for a DO loop the iteration variable and the symbols    *)
(* its start, end and step expressions reference, and the ops of the       *)
(* statements that follow it in its block.                                 *)
(***************************************************************************)
MaxNest == 3

Index == <<"i", "j", "k", "l", "m">>

DoSyms == {Index[n] : n \in 1..MaxNest}

LoopDirectives ==
  {"EXEC_OMP_DO", "EXEC_OMP_DO_SIMD", "EXEC_OMP_PARALLEL_DO",
   "EXEC_OMP_PARALLEL_DO_SIMD", "EXEC_OMP_SIMD"}

DoLoop(var, start, end, step, next) ==
  [op |-> "EXEC_DO", var |-> var, start |-> start, end |-> end,
   step |-> step, next |-> next]

Stmt(op) ==
  [op |-> op, var |-> "", start |-> {}, end |-> {}, step |-> {}, next |-> <<>>]

(* gfc_find_sym_in_expr is defined outside the files at hand: whether the  *)
(* expression references the symbol.                                       *)
gfc_find_sym_in_expr(sym, expr) == sym \in expr

directive_name(op) ==
  CASE op = "EXEC_OMP_DO" -> "!$OMP DO"
    [] op = "EXEC_OMP_DO_SIMD" -> "!$OMP DO SIMD"
    [] op = "EXEC_OMP_PARALLEL_DO" -> "!$OMP PARALLEL DO"
    [] op = "EXEC_OMP_PARALLEL_DO_SIMD" -> "!$OMP PARALLEL DO SIMD"
    [] op = "EXEC_OMP_SIMD" -> "!$OMP SIMD"

is_simd(op) ==
  op \in {"EXEC_OMP_DO_SIMD", "EXEC_OMP_PARALLEL_DO_SIMD", "EXEC_OMP_SIMD"}

(* a diagnostic at the locus of the loop of the given level *)
LoopError(msg, name, level) ==
  [msg |-> msg, arg |-> name, sym |-> "", level |-> level]

(* the lists the iteration variable must not be on *)
conflict_list(op, clauses, list) ==
  IF ~is_simd(op) THEN list # "PRIVATE" /\ list # "LASTPRIVATE"
  ELSE IF clauses.collapse > 1 THEN list # "LASTPRIVATE"
  ELSE list # "LINEAR"

conflict_error(op, clauses) ==
  IF ~is_simd(op)
  THEN "iteration variable present on clause other than PRIVATE or LASTPRIVATE"
  ELSE IF clauses.collapse > 1
  THEN "iteration variable present on clause other than LASTPRIVATE"
  ELSE "iteration variable present on clause other than LINEAR"

RECURSIVE conflict_errors(_, _, _, _, _)
conflict_errors(op, clauses, names, dovar, i) ==
  IF names = <<>> THEN <<>>
  ELSE Cond(/\ conflict_list(op, clauses, Head(names))
            /\ \E k \in 1..Len(clauses.lists[Head(names)]) :
                 clauses.lists[Head(names)][k] = dovar,
            LoopError(conflict_error(op, clauses), directive_name(op), i))
       \o conflict_errors(op, clauses, Tail(names), dovar, i)

(* for (j = 1; j < i; j++) over the loops outside the loop of level i,     *)
(* do_code2 being the loop of level level2: whether the error is reported  *)
RECURSIVE rectangular_loop(_, _, _, _)
rectangular_loop(nest, i, j, level2) ==
  IF ~(j < i) THEN FALSE
  ELSE LET do_code == nest[i]
           ivar == nest[level2].var
       IN IF \/ do_code.var = ivar
             \/ gfc_find_sym_in_expr(ivar, do_code.start)
             \/ gfc_find_sym_in_expr(ivar, do_code.end)
             \/ gfc_find_sym_in_expr(ivar, do_code.step)
          THEN TRUE
          ELSE IF j < i THEN FALSE
          ELSE rectangular_loop(nest, i, j + 1, level2 + 1)

(* for (i = 1; i <= collapse; i++), from iteration i on *)
RECURSIVE collapsed_loops(_, _, _, _, _, _)
collapsed_loops(op, clauses, tab, nest, collapse, i) ==
  LET do_code == nest[i]
      name == directive_name(op)
  IN IF do_code.op = "EXEC_DO_WHILE"
     THEN <<LoopError("cannot be a DO WHILE or DO without loop control", name, i)>>
     ELSE IF do_code.op = "EXEC_DO_CONCURRENT"
     THEN <<LoopError("cannot be a DO CONCURRENT loop", name, i)>>
     ELSE
       Cond(tab[do_code.var].type # "BT_INTEGER",
            LoopError("iteration variable must be of type integer", name, i))
       \o Cond(tab[do_code.var].threadprivate,
               LoopError("iteration variable must not be THREADPRIVATE", name, i))
       \o conflict_errors(op, clauses, OMP_LISTS, do_code.var, i)
       \o Cond(i > 1 /\ rectangular_loop(nest, i, 1, 1),
               LoopError("collapsed loops don't form rectangular iteration space",
                         name, i))
       \o (IF i = collapse THEN <<>>
           ELSE IF \E k \in 1..Len(do_code.next) :
                     do_code.next[k] \notin {"EXEC_NOP", "EXEC_CONTINUE"}
           THEN <<LoopError("collapsed loops not perfectly nested", name, i)>>
           ELSE IF \/ i = Len(nest)
                   \/ nest[i + 1].op \notin {"EXEC_DO", "EXEC_DO_WHILE"}
           THEN <<LoopError("not enough DO loops for collapsed", name, 0)>>
           ELSE collapsed_loops(op, clauses, tab, nest, collapse, i + 1))

(***************************************************************************)
(* The loop nests and directives resolve_omp_do is given.                  *)
(***************************************************************************)
Trailing == {<<>>, <<"EXEC_CONTINUE">>, <<"EXEC_ASSIGN">>}

(* the DO loops that can stand at depth n: a loop of its own variable with *)
(* constant bounds, a loop that reuses the variable of an outer loop, a    *)
(* loop one of whose expressions references the variable of an outer loop  *)
DoLoopsAt(n) ==
  {DoLoop(Index[n], {}, {}, {}, nx) : nx \in Trailing}
  \cup {DoLoop(Index[m], {}, {}, {}, <<>>) : m \in 1..(n - 1)}
  \cup {DoLoop(Index[n], {Index[m]}, {}, {}, <<>>) : m \in 1..(n - 1)}
  \cup {DoLoop(Index[n], {}, {Index[m]}, {}, <<>>) : m \in 1..(n - 1)}
  \cup {DoLoop(Index[n], {}, {}, {Index[m]}, <<>>) : m \in 1..(n - 1)}

(* the statement a nest ends with: a loop, or below the first level the    *)
(* statement the body of the loop above begins with                        *)
LastAt(n) ==
  DoLoopsAt(n) \cup {Stmt("EXEC_DO_WHILE"), Stmt("EXEC_DO_CONCURRENT")}
  \cup (IF n > 1 THEN {Stmt("EXEC_ASSIGN")} ELSE {})

RECURSIVE NestsOfDepth(_)
NestsOfDepth(n) ==
  IF n = 0 THEN {<<>>}
  ELSE {Append(nest, l) : nest \in NestsOfDepth(n - 1), l \in DoLoopsAt(n)}

LoopNests ==
  UNION {{Append(nest, l) : nest \in NestsOfDepth(n - 1), l \in LastAt(n)} :
         n \in 1..MaxNest}

IntegerIndices == [s \in DoSyms |-> Symbol("BT_INTEGER", FALSE)]

(* nests of every shape under !$OMP DO without list clauses *)
NestInputsDo ==
  {[nest |-> nest, op |-> "EXEC_OMP_DO",
    clauses |-> [gfc_get_omp_clauses EXCEPT !.collapse = c],
    tab |-> IntegerIndices] :
   nest \in LoopNests, c \in 0..(MaxNest + 1)}

PlainNests ==
  {<<DoLoop(Index[1], {}, {}, {}, <<>>)>>,
   <<DoLoop(Index[1], {}, {}, {}, <<>>), DoLoop(Index[2], {}, {}, {}, <<>>)>>}

(* plain nests under every loop directive, the first iteration variable of *)
(* any kind, one variable on one list                                      *)
DirectiveInputsDo ==
  {[nest |-> nest, op |-> op,
    clauses |-> [lists |-> [EmptyLists EXCEPT ![list] = <<sym>>], collapse |-> c],
    tab |-> [IntegerIndices EXCEPT ![Index[1]] = Symbol(t, tp)]] :
   nest \in PlainNests, op \in LoopDirectives, list \in ListNames,
   sym \in {Index[1], Index[2]}, c \in 0..2,
   t \in {"BT_INTEGER", "BT_REAL"}, tp \in BOOLEAN}

DoInit ==
  /\ pc = "gfc_resolve_omp_directive"
  /\ \E in \in NestInputsDo \cup DirectiveInputsDo :
       /\ do_nest = in.nest
       /\ code_op = in.op
       /\ omp_clauses = in.clauses
       /\ symtab = in.tab
  /\ mark = [s \in DoSyms |-> 0]
  /\ errors = <<>>
  /\ NoKernels /\ NoAtomic /\ NoParse /\ NoContext

resolve_omp_do ==
  /\ pc = "gfc_resolve_omp_directive"
  /\ code_op \in LoopDirectives
  /\ LET r == resolve_omp_clauses(omp_clauses, mark, symtab)
         collapse == IF omp_clauses.collapse <= 0 THEN 1 ELSE omp_clauses.collapse
     IN /\ mark' = r.mark
        /\ errors' = errors \o r.errors
                     \o collapsed_loops(code_op, omp_clauses, symtab, do_nest,
                                        collapse, 1)
  /\ pc' = "resolved"
  /\ UNCHANGED <<kvars, omp_clauses, symtab, dvars, pvars, xvars>>

DoNext == resolve_omp_do

SpecDo == DoInit /\ [][DoNext]_vars

(***************************************************************************)
(* Properties of the resolved loop nest.                                   *)
(***************************************************************************)
C10_Collapsed(n) ==
  /\ Len(do_nest) >= n
  /\ \A k \in 1..n : do_nest[k].op = "EXEC_DO"
  /\ \A k \in 1..(n - 1) :
       \A t \in 1..Len(do_nest[k].next) :
         do_nest[k].next[t] \in {"EXEC_NOP", "EXEC_CONTINUE"}

C10_DependsOn(i, j) ==
  \/ do_nest[i].var = do_nest[j].var
  \/ do_nest[j].var \in do_nest[i].start \cup do_nest[i].end \cup do_nest[i].step

C10_RectangularError ==
  \E e \in 1..Len(errors) :
    errors[e].msg = "collapsed loops don't form rectangular iteration space"

(* C10: under collapse(N), N >= 2, with N perfectly nested DO loops, the   *)
(* non-rectangular iteration space error is reported whenever the loop of  *)
(* some level i <= N reuses, or references in its start, end or step, the  *)
(* iteration variable of some outer level j < i, whichever outer level.    *)
C10_EveryOuterLevelChecked ==
  (/\ pc = "resolved"
   /\ code_op \in LoopDirectives
   /\ omp_clauses.collapse >= 2
   /\ C10_Collapsed(omp_clauses.collapse))
  => ((\E i \in 2..omp_clauses.collapse : \E j \in 1..(i - 1) : C10_DependsOn(i, j))
      => C10_RectangularError)

(***************************************************************************)
(* resolve_omp_atomic.  An expression node is a record: id stands for the  *)
(* address of the node (0 for a node made during resolution), args are     *)
(* op1 and op2 of an operator or the actual arguments of a function, isym  *)
(* is "" for a function that is not an intrinsic.                          *)
(***************************************************************************)
TypeSpec(type, kind) == [type |-> type, kind |-> kind]

Expr(id, expr_type, sym, op, isym, args, rank, ts) ==
  [id |-> id, expr_type |-> expr_type, sym |-> sym, op |-> op, isym |-> isym,
   args |-> args, rank |-> rank, ts |-> ts]

EVar(id, sym, rank, ts) == Expr(id, "EXPR_VARIABLE", sym, "", "", <<>>, rank, ts)

EConst(id, ts) == Expr(id, "EXPR_CONSTANT", "", "", "", <<>>, 0, ts)

EOp(id, op, op1, op2, rank, ts) ==
  Expr(id, "EXPR_OP", "", op, "", <<op1, op2>>, rank, ts)

EFn(id, isym, actual, rank, ts) ==
  Expr(id, "EXPR_FUNCTION", "", "", isym, actual, rank, ts)

Assign(expr1, expr2) == [op |-> "EXEC_ASSIGN", expr1 |-> expr1, expr2 |-> expr2]

(* the order of the basic types in enum bt, defined outside the files at   *)
(* hand                                                                    *)
bt == <<"BT_INTEGER", "BT_LOGICAL", "BT_REAL", "BT_COMPLEX", "BT_DERIVED",
        "BT_CHARACTER">>

bt_rank(type) == CHOOSE i \in 1..Len(bt) : bt[i] = type

(* gfc_compare_types and gfc_convert_type are defined outside the files at *)
(* hand: equal type and kind; the node becomes a conversion of a copy      *)
gfc_compare_types(ts1, ts2) == ts1 = ts2

gfc_convert_type(expr, ts) ==
  EFn(expr.id, "GFC_ISYM_CONVERSION", <<[expr EXCEPT !.id = 0]>>, expr.rank, ts)

RECURSIVE expr_references_sym(_, _, _)
expr_references_sym(e, s, se) ==
  IF e = NULL \/ (se # NULL /\ e.id = se.id) THEN FALSE
  ELSE IF e.expr_type \in {"EXPR_CONSTANT", "EXPR_VARIABLE"} THEN e.sym = s
  ELSE \E k \in 1..Len(e.args) : expr_references_sym(e.args[k], s, se)

is_conversion(expr, widening) ==
  IF \/ expr.expr_type # "EXPR_FUNCTION"
     \/ expr.isym # "GFC_ISYM_CONVERSION"
  THEN NULL
  ELSE LET inner == expr.args[1]
           ts1 == IF widening THEN expr.ts ELSE inner.ts
           ts2 == IF widening THEN inner.ts ELSE expr.ts
       IN IF \/ bt_rank(ts1.type) > bt_rank(ts2.type)
             \/ (ts1.type = ts2.type /\ ts1.kind > ts2.kind)
          THEN inner ELSE NULL

(* an assignment target or capture source that is a scalar variable of     *)
(* intrinsic type                                                          *)
scalar_intrinsic_variable(e) ==
  /\ e.expr_type = "EXPR_VARIABLE"
  /\ e.sym # ""
  /\ e.rank = 0
  /\ e.ts.type \in {"BT_INTEGER", "BT_REAL", "BT_COMPLEX", "BT_LOGICAL"}

is_var(e, var) == e.expr_type = "EXPR_VARIABLE" /\ e.sym # "" /\ e.sym = var

AtomicError(msg) == Error(msg, "", "")

(* the node with the address id replaced by new *)
RECURSIVE replace_expr(_, _, _)
replace_expr(e, id, new) ==
  IF e.id = id THEN new
  ELSE [e EXCEPT !.args = [k \in 1..Len(e.args) |-> replace_expr(e.args[k], id, new)]]

(* mutant: no operator has an inverse *)
alt_op_none(op) == "INTRINSIC_NONE"

alt_op(op) ==
  CASE op = "INTRINSIC_PLUS" -> "INTRINSIC_MINUS"
    [] op = "INTRINSIC_TIMES" -> "INTRINSIC_DIVIDE"
    [] op = "INTRINSIC_MINUS" -> "INTRINSIC_PLUS"
    [] op = "INTRINSIC_DIVIDE" -> "INTRINSIC_TIMES"
    [] op = "INTRINSIC_EQV" -> "INTRINSIC_NEQV"
    [] op = "INTRINSIC_NEQV" -> "INTRINSIC_EQV"
    [] OTHER -> "INTRINSIC_NONE"

AtomicOperators ==
  {"INTRINSIC_PLUS", "INTRINSIC_TIMES", "INTRINSIC_MINUS", "INTRINSIC_DIVIDE",
   "INTRINSIC_AND", "INTRINSIC_OR", "INTRINSIC_EQV", "INTRINSIC_NEQV"}

(* for (q = &expr2->value.op.op1; (e = *q) != NULL; ): e is *q, p the node *)
(* *p or NULL; the result is v, p and the last e                           *)
RECURSIVE find_var_operand(_, _, _, _)
find_var_operand(e, p, op, var) ==
  IF is_var(e, var) THEN [v |-> e, p |-> p, e |-> e]
  ELSE IF is_conversion(e, TRUE) # NULL
  THEN find_var_operand(e.args[1], p, op, var)
  ELSE IF \/ e.expr_type # "EXPR_OP"
          \/ (e.op # op /\ e.op # alt_op(op))
          \/ e.rank # 0
  THEN [v |-> NULL, p |-> p, e |-> e]
  ELSE find_var_operand(e.args[1], e, op, var)

(* the result of the checks of the update statement: the statement as it   *)
(* is left, whether the swap flag is set, the errors, whether the function *)
(* has returned                                                            *)
Update(code, swap, errs, returned) ==
  [code |-> code, swap |-> swap, errors |-> errs, returned |-> returned]

canonicalize_operator_not_done(code, expr2, p, v) == code

(* Canonicalize into var = var op (expr): *p is the operator node P, V the *)
(* node of var below it                                                    *)
canonicalize_operator(code, expr2, p, v) ==
  LET lowered == replace_expr(expr2, p.id, p.args[2])
      e1 == [p EXCEPT !.args = <<p.args[1], lowered>>, !.ts = expr2.ts]
      e2 == IF gfc_compare_types(e1.args[1].ts, e1.ts) THEN e1
            ELSE [e1 EXCEPT !.args = <<gfc_convert_type(v, e1.ts), lowered>>]
  IN IF code.expr2.id = expr2.id THEN [code EXCEPT !.expr2 = e2]
     ELSE [code EXCEPT !.expr2.args = <<e2>>]

(* else if (expr2->expr_type == EXPR_OP) *)
operator_update(code, expr2, var) ==
  IF expr2.op \notin AtomicOperators
  THEN Update(code, FALSE,
         <<AtomicError("!$OMP ATOMIC assignment operator must be binary +, *, -, /, .AND., .OR., .EQV. or .NEQV.")>>,
         TRUE)
  ELSE
    LET op2 == expr2.args[2]
        c == is_conversion(op2, TRUE)
        direct == is_var(op2, var) \/ (c # NULL /\ is_var(c, var))
        w == find_var_operand(expr2.args[1], NULL, expr2.op, var)
        v == IF is_var(op2, var) THEN op2 ELSE IF direct THEN c ELSE w.v
        moved == ~direct /\ v # NULL /\ w.p # NULL
        code2 == IF moved THEN canonicalize_operator(code, expr2, w.p, v) ELSE code
        e == IF direct THEN op2 ELSE IF moved THEN w.p ELSE w.e
        advisory ==
          Cond(moved /\ w.p.op \in {"INTRINSIC_MINUS", "INTRINSIC_DIVIDE",
                                    "INTRINSIC_EQV", "INTRINSIC_NEQV"},
               AtomicError("!$OMP ATOMIC var = var op expr not mathematically equivalent to var = var op (expr)"))
    IN IF v = NULL
       THEN Update(code, FALSE,
              <<AtomicError("!$OMP ATOMIC assignment must be var = var op expr or var = expr op var")>>,
              TRUE)
       ELSE IF e.rank # 0 \/ expr_references_sym(code2.expr2, var, v)
       THEN Update(code2, FALSE,
              advisory \o <<AtomicError("expr in !$OMP ATOMIC assignment var = var op expr must be scalar and cannot reference var")>>,
              TRUE)
       ELSE Update(code2, FALSE, advisory, FALSE)

(* for (arg = expr2->value.function.actual; arg; arg = arg->next): var_arg *)
(* is the position of the argument found so far, 0 for NULL                *)
RECURSIVE intrinsic_arguments(_, _, _, _)
intrinsic_arguments(actual, k, var_arg, var) ==
  IF k > Len(actual) THEN [var_arg |-> var_arg, errors |-> <<>>]
  ELSE LET arg == actual[k]
           is_var_arg == /\ (k = 1 \/ (var_arg = 0 /\ k = Len(actual)))
                         /\ is_var(arg, var)
       IN IF ~is_var_arg /\ expr_references_sym(arg, var, NULL)
          THEN [var_arg |-> var_arg,
                errors |-> <<Error("!$OMP ATOMIC intrinsic arguments except one must not reference", "", var)>>]
          ELSE IF arg.rank # 0
          THEN [var_arg |-> var_arg,
                errors |-> <<AtomicError("!$OMP ATOMIC intrinsic arguments must be scalar")>>]
          ELSE intrinsic_arguments(actual, k + 1,
                                   IF is_var_arg THEN k ELSE var_arg, var)

(* else if (expr2->expr_type == EXPR_FUNCTION && ...) *)
intrinsic_update(code, expr2, var) ==
  LET actual == expr2.args
      r == intrinsic_arguments(actual, 1, 0, var)
  IN IF expr2.isym \in {"GFC_ISYM_IAND", "GFC_ISYM_IOR", "GFC_ISYM_IEOR"}
        /\ Len(actual) > 2
     THEN Update(code, FALSE,
            <<AtomicError("!$OMP ATOMIC assignment intrinsic IAND, IOR or IEOR must have two arguments")>>,
            TRUE)
     ELSE IF expr2.isym \notin {"GFC_ISYM_MIN", "GFC_ISYM_MAX", "GFC_ISYM_IAND",
                                "GFC_ISYM_IOR", "GFC_ISYM_IEOR"}
     THEN Update(code, FALSE,
            <<AtomicError("!$OMP ATOMIC assignment intrinsic must be MIN, MAX, IAND, IOR or IEOR")>>,
            TRUE)
     ELSE IF r.errors # <<>> THEN Update(code, FALSE, r.errors, TRUE)
     ELSE IF r.var_arg = 0
     THEN Update(code, FALSE,
            <<Error("First or last !$OMP ATOMIC intrinsic argument must be", "", var)>>,
            TRUE)
     ELSE IF r.var_arg # 1
     THEN Update([code EXCEPT !.expr2 =
                    replace_expr(code.expr2, expr2.id,
                      [expr2 EXCEPT !.args = <<actual[Len(actual)]>>
                                             \o SubSeq(actual, 1, Len(actual) - 1)])],
                 FALSE, <<>>, FALSE)
     ELSE Update(code, FALSE, <<>>, FALSE)

(* the update statement CODE with the right hand side EXPR2 below a        *)
(* narrowing conversion, lines 1735-1948                                   *)
update_statement(code, expr2, var, aop, has_next) ==
  IF /\ aop = "GFC_OMP_ATOMIC_CAPTURE"
     /\ ~has_next
     /\ code.expr2.rank = 0
     /\ ~expr_references_sym(code.expr2, var, NULL)
  THEN Update(code, TRUE, <<>>, FALSE)
  ELSE IF expr2.expr_type = "EXPR_OP" THEN operator_update(code, expr2, var)
  ELSE IF /\ expr2.expr_type = "EXPR_FUNCTION"
          /\ expr2.isym # ""
          /\ Len(expr2.args) >= 2
  THEN intrinsic_update(code, expr2, var)
  ELSE Update(code, FALSE,
         <<AtomicError("!$OMP ATOMIC assignment must have an operator or intrinsic on right hand side")>>,
         FALSE)

capture_after_update_any_source(code, var) ==
  IF ~scalar_intrinsic_variable(code.expr1)
  THEN <<AtomicError("!$OMP ATOMIC CAPTURE capture statement must set a scalar variable of intrinsic type")>>
  ELSE <<>>

(* the capture statement after the update statement, lines 1950-1995 *)
capture_after_update(code, var) ==
  LET narrowed == is_conversion(code.expr2, FALSE)
      widened == is_conversion(code.expr2, TRUE)
      expr2 == IF narrowed # NULL THEN narrowed
               ELSE IF widened # NULL THEN widened ELSE code.expr2
  IN IF ~scalar_intrinsic_variable(code.expr1)
     THEN <<AtomicError("!$OMP ATOMIC CAPTURE capture statement must set a scalar variable of intrinsic type")>>
     ELSE IF ~scalar_intrinsic_variable(expr2)
     THEN <<AtomicError("!$OMP ATOMIC CAPTURE capture statement must read from a scalar variable of intrinsic type")>>
     ELSE IF expr2.sym # var
     THEN <<AtomicError("!$OMP ATOMIC CAPTURE capture statement reads from different variable than update statement writes into")>>
     ELSE <<>>

Resolved(atomic, errs) == [atomic_code |-> atomic, errors |-> errs]

(* from the ALLOCATABLE check on, CODE being statement k of the block *)
resolve_update(atomic, tab, k, var, expr2) ==
  IF tab[var].allocatable
  THEN Resolved(atomic, <<AtomicError("!$OMP ATOMIC with ALLOCATABLE variable")>>)
  ELSE
    LET aop == atomic.omp_atomic.op
        has_next == k < Len(atomic.block)
        u == update_statement(atomic.block[k], expr2, var, aop, has_next)
        changed == [atomic EXCEPT
                      !.block[k] = u.code,
                      !.omp_atomic.swap = @ \/ u.swap]
    IN IF ~u.returned /\ aop = "GFC_OMP_ATOMIC_CAPTURE" /\ has_next
       THEN Resolved(changed,
                     u.errors \o capture_after_update(atomic.block[k + 1], var))
       ELSE Resolved(changed, u.errors)

(* case GFC_OMP_ATOMIC_CAPTURE, lines 1674-1723 *)
resolve_capture(atomic, tab, var, expr2) ==
  LET code == atomic.block[1]
      widened == is_conversion(code.expr2, TRUE)
      expr2_tmp == IF expr2.id = code.expr2.id /\ widened # NULL
                   THEN widened ELSE expr2
      next == atomic.block[2]
      narrowed == is_conversion(next.expr2, FALSE)
  IN IF expr2_tmp.expr_type # "EXPR_VARIABLE"
     THEN resolve_update(atomic, tab, 1, var, expr2)
     ELSE IF ~scalar_intrinsic_variable(expr2_tmp) \/ expr2_tmp.sym = var
     THEN Resolved(atomic,
            <<AtomicError("!$OMP ATOMIC CAPTURE capture statement must read from a scalar variable of intrinsic type")>>)
     ELSE IF ~scalar_intrinsic_variable(next.expr1)
     THEN Resolved(atomic,
            <<AtomicError("!$OMP ATOMIC CAPTURE update statement must set a scalar variable of intrinsic type")>>)
     ELSE IF next.expr1.sym # expr2_tmp.sym
     THEN Resolved(atomic,
            <<AtomicError("!$OMP ATOMIC CAPTURE capture statement reads from different variable than update statement writes into")>>)
     ELSE resolve_update(atomic, tab, 2, expr2_tmp.sym,
                         IF narrowed # NULL THEN narrowed ELSE next.expr2)

omp_atomic_resolution(atomic, tab) ==
  LET aop == atomic.omp_atomic.op
      code == atomic.block[1]
      var == code.expr1.sym
      narrowed == is_conversion(code.expr2, FALSE)
      widened == IF aop \in {"GFC_OMP_ATOMIC_READ", "GFC_OMP_ATOMIC_WRITE"}
                 THEN is_conversion(code.expr2, TRUE) ELSE NULL
      expr2 == IF narrowed # NULL THEN narrowed
               ELSE IF widened # NULL THEN widened ELSE code.expr2
  IN IF ~scalar_intrinsic_variable(code.expr1)
     THEN Resolved(atomic,
            <<AtomicError("!$OMP ATOMIC statement must set a scalar variable of intrinsic type")>>)
     ELSE IF aop = "GFC_OMP_ATOMIC_READ"
     THEN Resolved(atomic,
            Cond(~scalar_intrinsic_variable(expr2),
                 AtomicError("!$OMP ATOMIC READ statement must read from a scalar variable of intrinsic type")))
     ELSE IF aop = "GFC_OMP_ATOMIC_WRITE"
     THEN Resolved(atomic,
            Cond(expr2.rank # 0 \/ expr_references_sym(code.expr2, var, NULL),
                 AtomicError("expr in !$OMP ATOMIC WRITE assignment var = expr must be scalar and cannot reference var")))
     ELSE IF aop = "GFC_OMP_ATOMIC_CAPTURE"
     THEN resolve_capture(atomic, tab, var, expr2)
     ELSE resolve_update(atomic, tab, 1, var, expr2)

(***************************************************************************)
(* The atomic constructs resolve_omp_atomic is given: gfc_match_omp_atomic *)
(* has set the kind, the block holds one assignment, two under capture.    *)
(***************************************************************************)
MaxChain == 2

int4 == TypeSpec("BT_INTEGER", 4)

int8 == TypeSpec("BT_INTEGER", 8)

AtomicSyms == {"x", "v", "y", "a", "c", "w"}

(* x, v and y are default integer scalars, a is an array, c a character    *)
(* scalar and w an integer scalar of a wider kind                          *)
Leaf(id, name) ==
  CASE name = "a" -> EVar(id, "a", 1, int4)
    [] name = "c" -> EVar(id, "c", 0, TypeSpec("BT_CHARACTER", 1))
    [] name = "w" -> EVar(id, "w", 0, int8)
    [] name = "1" -> EConst(id, int4)
    [] OTHER -> EVar(id, name, 0, int4)

Max(m, n) == IF m > n THEN m ELSE n

BinOp(id, op, op1, op2) ==
  EOp(id, op, op1, op2, Max(op1.rank, op2.rank),
      IF op1.ts.kind > op2.ts.kind THEN op1.ts ELSE op2.ts)

Widen(id, e) == EFn(id, "GFC_ISYM_CONVERSION", <<e>>, e.rank, int8)

Narrow(id, e) == EFn(id, "GFC_ISYM_CONVERSION", <<e>>, e.rank, int4)

(* the right hand sides x op1 y op2 z ... as the matcher builds them,      *)
(* (x op1 y) op2 z, with n operators; the nodes of the statement with the  *)
(* addresses from base on                                                  *)
RECURSIVE Chains(_, _)
Chains(base, n) ==
  IF n = 0 THEN {Leaf(base, l) : l \in {"x", "v", "y", "a", "1"}}
  ELSE {BinOp(base + 2 * n - 1, op, e, Leaf(base + 2 * n, l)) :
          e \in Chains(base, n - 1),
          op \in {"INTRINSIC_PLUS", "INTRINSIC_MINUS"},
          l \in {"x", "y", "1"}}

Intrinsics(base) ==
  {EFn(base, "GFC_ISYM_MAX", <<Leaf(base + 1, l1), Leaf(base + 2, l2)>>, 0, int4) :
     l1 \in {"x", "y", "a"}, l2 \in {"x", "y"}}
  \cup {EFn(base, isym,
            <<Leaf(base + 1, "y"), Leaf(base + 2, "y"), Leaf(base + 3, "x")>>,
            0, int4) : isym \in {"GFC_ISYM_MIN", "GFC_ISYM_IAND"}}
  \cup {EFn(base, isym, <<Leaf(base + 1, "x"), Leaf(base + 2, "y")>>, 0, int4) :
          isym \in {"GFC_ISYM_IEOR", "GFC_ISYM_ATAN2", ""}}

(* right hand sides with the conversions the resolution of a mixed-kind    *)
(* expression has put in                                                   *)
Converted(base) ==
  {Narrow(base, BinOp(base + 1, "INTRINSIC_MINUS",
                      Widen(base + 2, Leaf(base + 3, "x")), Leaf(base + 4, "w"))),
   Narrow(base, BinOp(base + 1, "INTRINSIC_MINUS",
                      Leaf(base + 4, "w"), Widen(base + 2, Leaf(base + 3, "x")))),
   Narrow(base, BinOp(base + 1, "INTRINSIC_MINUS",
                      Widen(base + 2, BinOp(base + 3, "INTRINSIC_MINUS",
                                            Leaf(base + 5, "x"), Leaf(base + 6, "y"))),
                      Leaf(base + 4, "w"))),
   Widen(base, Leaf(base + 1, "x")),
   Narrow(base, Leaf(base + 1, "w")),
   BinOp(base, "INTRINSIC_POWER", Leaf(base + 1, "x"), Leaf(base + 2, "y"))}

RightHandSides(base) ==
  UNION {Chains(base, n) : n \in 0..MaxChain}
  \cup Intrinsics(base) \cup Converted(base)

(* the statements of a capture construct: a capture v = x or an update     *)
CaptureSides(base) ==
  Chains(base, 0) \cup Chains(base, 1)
  \cup {EFn(base, "GFC_ISYM_MAX", <<Leaf(base + 1, "x"), Leaf(base + 2, "y")>>, 0, int4),
        Widen(base, Leaf(base + 1, "x"))}

OmpAtomic(op) == [op |-> op, seq_cst |-> FALSE, swap |-> FALSE]

AtomicCode(op, block) == [omp_atomic |-> OmpAtomic(op), block |-> block]

AtomicInputs ==
  {AtomicCode(op, <<Assign(Leaf(1, t), rhs)>>) :
     op \in {"GFC_OMP_ATOMIC_UPDATE", "GFC_OMP_ATOMIC_READ", "GFC_OMP_ATOMIC_WRITE"},
     t \in {"x", "a", "c"}, rhs \in RightHandSides(2)}
  \cup
  {AtomicCode("GFC_OMP_ATOMIC_CAPTURE",
              <<Assign(Leaf(1, t1), rhs1), Assign(Leaf(2 * MaxChain + 10, t2), rhs2)>>) :
     t1 \in {"x", "v"}, rhs1 \in CaptureSides(2),
     t2 \in {"x", "v", "y", "a"}, rhs2 \in CaptureSides(2 * MaxChain + 11)}

AtomicSymbols ==
  {[s \in AtomicSyms |->
      [Symbol(Leaf(0, s).ts.type, FALSE) EXCEPT
         !.allocatable = (s = "x" /\ ax) \/ (s = "v" /\ av)]] :
   ax \in BOOLEAN, av \in BOOLEAN}

AtomicInit ==
  /\ pc = "gfc_resolve_omp_directive"
  /\ atomic_code \in AtomicInputs
  /\ symtab \in AtomicSymbols
  /\ code_op = "EXEC_OMP_ATOMIC"
  /\ do_nest = <<>>
  /\ omp_clauses = <<>> /\ mark = <<>> /\ errors = <<>>
  /\ NoKernels /\ NoParse /\ NoContext

resolve_omp_atomic ==
  /\ pc = "gfc_resolve_omp_directive"
  /\ code_op = "EXEC_OMP_ATOMIC"
  /\ LET r == omp_atomic_resolution(atomic_code, symtab)
     IN /\ atomic_code' = r.atomic_code
        /\ errors' = errors \o r.errors
  /\ pc' = "resolved"
  /\ UNCHANGED <<kvars, cvars, do_nest, code_op, pvars, xvars>>

AtomicNext == resolve_omp_atomic

SpecAtomic == AtomicInit /\ [][AtomicNext]_vars

(***************************************************************************)
(* Properties of the resolution of an atomic construct.                    *)
(***************************************************************************)
Resolving(aop) ==
  /\ pc = "gfc_resolve_omp_directive"
  /\ code_op = "EXEC_OMP_ATOMIC"
  /\ atomic_code.omp_atomic.op = aop

Advisory ==
  AtomicError("!$OMP ATOMIC var = var op expr not mathematically equivalent to var = var op (expr)")

Reports(errs, e) == \E k \in 1..Len(errs) : errs[k] = e

ScalarWithout(e, var) == e.rank = 0 /\ ~expr_references_sym(e, var, NULL)

Minus(e) == e.expr_type = "EXPR_OP" /\ e.op = "INTRINSIC_MINUS"

(* the step resolves an update of the scalar x, which is not allocatable *)
C11_UpdateOfX ==
  /\ Resolving("GFC_OMP_ATOMIC_UPDATE")
  /\ ~symtab["x"].allocatable
  /\ is_var(atomic_code.block[1].expr1, "x")

(* x = expr - x *)
C11_ExprMinusX(rhs) ==
  Minus(rhs) /\ is_var(rhs.args[2], "x") /\ ScalarWithout(rhs.args[1], "x")

(* x = x - expr *)
C11_XMinusExpr(rhs) ==
  Minus(rhs) /\ is_var(rhs.args[1], "x") /\ ScalarWithout(rhs.args[2], "x")

(* x = x - expr1 - expr2, matched as (x - expr1) - expr2 *)
C11_XMinusMinus(rhs) ==
  /\ Minus(rhs) /\ C11_XMinusExpr(rhs.args[1]) /\ ScalarWithout(rhs.args[2], "x")

(* the right hand side after the step is x - (e) *)
C11_RewrittenTo(e) ==
  LET after == atomic_code'.block[1].expr2
  IN /\ Minus(after)
     /\ is_var(after.args[1], "x")
     /\ after.args[2] = e

ValidUpdate(rhs, var) ==
  \/ /\ rhs.expr_type = "EXPR_OP"
     /\ rhs.op \in {"INTRINSIC_PLUS", "INTRINSIC_MINUS"}
     /\ \/ is_var(rhs.args[1], var) /\ ScalarWithout(rhs.args[2], var)
        \/ is_var(rhs.args[2], var) /\ ScalarWithout(rhs.args[1], var)
  \/ /\ rhs.expr_type = "EXPR_FUNCTION"
     /\ rhs.isym = "GFC_ISYM_MAX"
     /\ Len(rhs.args) = 2
     /\ is_var(rhs.args[1], var) /\ ScalarWithout(rhs.args[2], var)

PlainVariable(e) == e.expr_type = "EXPR_VARIABLE" /\ scalar_intrinsic_variable(e)

(* C12: under capture with two assignments to scalar variables of          *)
(* intrinsic type that are not allocatable.  Update then capture (the      *)
(* first statement a valid update of x, the second reading a variable):    *)
(* an error is reported when the second statement does not read x, none    *)
(* when it does.  Capture then update (the first statement v = x): an      *)
(* error when the second statement does not set x or when v is x, none     *)
(* when it sets x by a valid update or by an expression without x (swap).  *)
(* Where nothing is reported the kind is still capture.                    *)
C12_CaptureShape ==
  [][LET s1 == atomic_code.block[1]
         s2 == atomic_code.block[2]
         x1 == s1.expr1.sym
         x2 == s1.expr2.sym
         accepted == /\ errors' = <<>>
                     /\ atomic_code'.omp_atomic.op = "GFC_OMP_ATOMIC_CAPTURE"
     IN (/\ Resolving("GFC_OMP_ATOMIC_CAPTURE")
         /\ PlainVariable(s1.expr1) /\ PlainVariable(s2.expr1))
        => /\ (/\ ValidUpdate(s1.expr2, x1)
               /\ ~symtab[x1].allocatable
               /\ PlainVariable(s2.expr2))
              => IF s2.expr2.sym = x1 THEN accepted ELSE errors' # <<>>
           /\ PlainVariable(s1.expr2)
              => /\ (x2 = x1 \/ s2.expr1.sym # x2) => errors' # <<>>
                 /\ (/\ x2 # x1
                     /\ s2.expr1.sym = x2
                     /\ ~symtab[x2].allocatable
                     /\ \/ ValidUpdate(s2.expr2, x2)
                        \/ ScalarWithout(s2.expr2, x2))
                    => accepted]_vars

C12_Witness ==
  /\ pc = "resolved"
  /\ atomic_code.omp_atomic.op = "GFC_OMP_ATOMIC_CAPTURE"
  /\ is_var(atomic_code.block[1].expr1, "v")
  /\ is_var(atomic_code.block[1].expr2, "x")
  /\ is_var(atomic_code.block[2].expr1, "x")
  /\ ValidUpdate(atomic_code.block[2].expr2, "x")
  /\ ~atomic_code.omp_atomic.swap
  /\ errors = <<>>

AllocatableError == AtomicError("!$OMP ATOMIC with ALLOCATABLE variable")

(* C13: the ALLOCATABLE error is reported for every atomic construct,      *)
(* otherwise well formed, whose variable is allocatable: read v = x (x or  *)
(* v allocatable), write x = expr, update x = x op expr, and capture in    *)
(* both orders of its statements.                                          *)
C13_AllocatableRejected ==
  [][LET s1 == atomic_code.block[1]
         x1 == s1.expr1.sym
         aop == atomic_code.omp_atomic.op
     IN (/\ pc = "gfc_resolve_omp_directive"
         /\ code_op = "EXEC_OMP_ATOMIC"
         /\ PlainVariable(s1.expr1))
        => /\ (/\ aop = "GFC_OMP_ATOMIC_READ"
               /\ PlainVariable(s1.expr2)
               /\ (symtab[x1].allocatable \/ symtab[s1.expr2.sym].allocatable))
              => Reports(errors', AllocatableError)
           /\ (/\ aop = "GFC_OMP_ATOMIC_WRITE"
               /\ ScalarWithout(s1.expr2, x1)
               /\ symtab[x1].allocatable)
              => Reports(errors', AllocatableError)
           /\ (/\ aop = "GFC_OMP_ATOMIC_UPDATE"
               /\ ValidUpdate(s1.expr2, x1)
               /\ symtab[x1].allocatable)
              => Reports(errors', AllocatableError)
           /\ (/\ aop = "GFC_OMP_ATOMIC_CAPTURE"
               /\ ValidUpdate(s1.expr2, x1)
               /\ symtab[x1].allocatable)
              => Reports(errors', AllocatableError)
           /\ (/\ aop = "GFC_OMP_ATOMIC_CAPTURE"
               /\ PlainVariable(s1.expr2)
               /\ s1.expr2.sym # x1
               /\ is_var(atomic_code.block[2].expr1, s1.expr2.sym)
               /\ symtab[s1.expr2.sym].allocatable)
              => Reports(errors', AllocatableError)]_vars

(* what holds of C13: the kinds update and capture *)
C13_UpdateAndCaptureOnly ==
  [][LET s1 == atomic_code.block[1]
         x1 == s1.expr1.sym
         aop == atomic_code.omp_atomic.op
     IN (/\ pc = "gfc_resolve_omp_directive"
         /\ code_op = "EXEC_OMP_ATOMIC"
         /\ PlainVariable(s1.expr1))
        => /\ (/\ aop \in {"GFC_OMP_ATOMIC_READ", "GFC_OMP_ATOMIC_WRITE"})
              => ~Reports(errors', AllocatableError)
           /\ (/\ aop \in {"GFC_OMP_ATOMIC_UPDATE", "GFC_OMP_ATOMIC_CAPTURE"}
               /\ ValidUpdate(s1.expr2, x1)
               /\ symtab[x1].allocatable)
              => Reports(errors', AllocatableError)
           /\ (/\ aop = "GFC_OMP_ATOMIC_CAPTURE"
               /\ PlainVariable(s1.expr2)
               /\ s1.expr2.sym # x1
               /\ is_var(atomic_code.block[2].expr1, s1.expr2.sym)
               /\ symtab[s1.expr2.sym].allocatable)
              => Reports(errors', AllocatableError)]_vars

(***************************************************************************)
(* The clause parser, gfc_match_omp_clauses.  A directive line is the      *)
(* sequence of the clauses written on it.  Of each clause the model keeps  *)
(* what the matchers look at: what separates it from the text before it    *)
(* (sep: a comma, blanks only, or nothing), its keyword, the keyword       *)
(* argument (reduction operator, schedule kind, depend kind, default and   *)
(* proc_bind value, collapse count), the variables between the             *)
(* parentheses, the expression ("" when there is none, "?" when the text   *)
(* there is not an expression), whether the clause is closed as its syntax *)
(* asks (ok is FALSE for a missing parenthesis or a wrong separator in the *)
(* list), and for a reduction named by a procedure whether the name can be *)
(* made INTRINSIC.  gfc_current_locus is the index of the next clause.     *)
(***************************************************************************)
MaxItems == 2

Item(sep, kw, arg, names, expr, ok) ==
  [sep |-> sep, kw |-> kw, arg |-> arg, vars |-> names, expr |-> expr,
   ok |-> ok, intrinsic |-> TRUE]

(* what the matchers see at the end of the line *)
EndOfLine == Item("", "\n", "", <<>>, "", TRUE)

ItemAt(text, locus) == IF locus <= Len(text) THEN text[locus] ELSE EndOfLine

(* gfc_match_omp_eos: only blanks or a comment up to the end of the line *)
gfc_match_omp_eos(text, locus) ==
  IF locus > Len(text) THEN "MATCH_YES" ELSE "MATCH_NO"

(* gfc_match with one %e and a closing parenthesis *)
match_expr(it, kw) == it.kw = kw /\ it.expr \notin {"", "?"} /\ it.ok

(* the gfc_expr that %e makes of an expression text *)
ParsedExpr(e) == [text |-> e]

Namelist(sym, expr) == [sym |-> sym, expr |-> expr]

(* gfc_match_omp_variable_list at a clause whose keyword matched: the      *)
(* entries it appends to the list, or MATCH_ERROR with the locus restored. *)
(* Only a caller that passes end_colon accepts a colon after the list.     *)
match_omp_variable_list(it, with_end_colon) ==
  LET colon == it.expr # ""
      closed == IF colon THEN with_end_colon ELSE it.ok
  IN IF it.vars # <<>> /\ closed
     THEN [m |-> "MATCH_YES", end_colon |-> colon,
           head |-> [i \in 1..Len(it.vars) |-> Namelist(it.vars[i], NULL)]]
     ELSE [m |-> "MATCH_ERROR", end_colon |-> FALSE, head |-> <<>>]

(* the list a reduction operator or procedure name selects *)
reduction_list(arg) ==
  CASE arg = "+" -> "PLUS"
    [] arg = "*" -> "MULT"
    [] arg = "-" -> "SUB"
    [] arg = ".and." -> "AND"
    [] arg = ".or." -> "OR"
    [] arg = ".eqv." -> "EQV"
    [] arg = ".neqv." -> "NEQV"
    [] arg = "max" -> "MAX"
    [] arg = "min" -> "MIN"
    [] arg = "iand" -> "IAND"
    [] arg = "ior" -> "IOR"
    [] arg = "ieor" -> "IEOR"
    [] OTHER -> "NUM"

ReductionNames == {"max", "min", "iand", "ior", "ieor"}

default_sharing(arg) ==
  CASE arg = "shared" -> "OMP_DEFAULT_SHARED"
    [] arg = "private" -> "OMP_DEFAULT_PRIVATE"
    [] arg = "none" -> "OMP_DEFAULT_NONE"
    [] arg = "firstprivate" -> "OMP_DEFAULT_FIRSTPRIVATE"
    [] OTHER -> "OMP_DEFAULT_UNKNOWN"

sched_kind(arg) ==
  CASE arg = "static" -> "OMP_SCHED_STATIC"
    [] arg = "dynamic" -> "OMP_SCHED_DYNAMIC"
    [] arg = "guided" -> "OMP_SCHED_GUIDED"
    [] arg = "runtime" -> "OMP_SCHED_RUNTIME"
    [] arg = "auto" -> "OMP_SCHED_AUTO"
    [] OTHER -> "OMP_SCHED_NONE"

proc_bind(arg) ==
  CASE arg = "master" -> "OMP_PROC_BIND_MASTER"
    [] arg = "spread" -> "OMP_PROC_BIND_SPREAD"
    [] arg = "close" -> "OMP_PROC_BIND_CLOSE"
    [] OTHER -> "OMP_PROC_BIND_UNKNOWN"

(* the keyword and the list of the clauses that are plain variable lists,  *)
(* in the order the loop tries them before the reduction clause            *)
PlainLists ==
  <<"private", "firstprivate", "lastprivate", "copyprivate", "shared", "copyin">>

ListOf(kw) ==
  CASE kw = "private" -> "PRIVATE"
    [] kw = "firstprivate" -> "FIRSTPRIVATE"
    [] kw = "lastprivate" -> "LASTPRIVATE"
    [] kw = "copyprivate" -> "COPYPRIVATE"
    [] kw = "shared" -> "SHARED"
    [] kw = "copyin" -> "COPYIN"
    [] kw = "uniform" -> "UNIFORM"
    [] kw = "aligned" -> "ALIGNED"
    [] kw = "linear" -> "LINEAR"

(* What one pass over the recognizers does at a clause: continue with the  *)
(* clause consumed (next), leave the loop (break), or return MATCH_ERROR.  *)
Step(c, how, space, errs) ==
  [c |-> c, how |-> how, needs_space |-> space, errors |-> errs]

SyntaxError == Error("Syntax error in OpenMP variable list at %C", "", "")

(* the mutant forgets the entries the list already has *)
plain_list_overwrites(c, it, list) ==
  LET r == match_omp_variable_list(it, FALSE)
  IN IF r.m = "MATCH_YES"
     THEN Step([c EXCEPT !.lists[list] = r.head], "next", FALSE, <<>>)
     ELSE Step(c, "break", FALSE, <<SyntaxError>>)

(* a list clause that takes no expression: on MATCH_ERROR the loop goes on *)
(* to the recognizers after it, none of which matches the same keyword     *)
plain_list(c, it, list) ==
  LET r == match_omp_variable_list(it, FALSE)
  IN IF r.m = "MATCH_YES"
     THEN Step([c EXCEPT !.lists[list] = @ \o r.head], "next", FALSE, <<>>)
     ELSE Step(c, "break", FALSE, <<SyntaxError>>)

reduction_clause(c, it) ==
  LET reduction == reduction_list(it.arg)
  IN IF reduction # "NUM" /\ it.arg \in ReductionNames /\ ~it.intrinsic
     THEN Step(NULL, "return", FALSE, <<>>)
     ELSE IF reduction = "NUM" THEN Step(c, "break", FALSE, <<>>)
     ELSE plain_list(c, it, reduction)

schedule_clause(c, it) ==
  LET kind == sched_kind(it.arg)
      chunk == /\ kind \notin {"OMP_SCHED_RUNTIME", "OMP_SCHED_AUTO"}
               /\ it.expr \notin {"", "?"} /\ it.ok
      paren == it.expr = "" /\ it.ok
  IN IF kind # "OMP_SCHED_NONE" /\ (chunk \/ paren)
     THEN Step([c EXCEPT !.sched_kind = kind,
                         !.chunk_size = IF chunk THEN ParsedExpr(it.expr)
                                        ELSE NULL],
               "next", FALSE, <<>>)
     ELSE Step(c, "break", FALSE, <<>>)

(* gfc_extract_int: the value of a constant integer expression, or the    *)
(* message p when the expression is no integer constant                    *)
gfc_extract_int(expr) ==
  CASE expr = "0" -> [p |-> "", result |-> 0]
    [] expr = "1" -> [p |-> "", result |-> 1]
    [] expr = "2" -> [p |-> "", result |-> 2]
    [] expr = "3" -> [p |-> "", result |-> 3]
    [] OTHER -> [p |-> "Constant expression required at %C", result |-> 0]

collapse_clause(c, it) ==
  LET r == gfc_extract_int(it.expr)
  IN IF r.p # ""
     THEN Step([c EXCEPT !.collapse = 1], "next", FALSE, <<Error(r.p, "", "")>>)
     ELSE IF r.result <= 0
     THEN Step([c EXCEPT !.collapse = 1], "next", FALSE,
               <<Error("COLLAPSE clause argument not constant positive integer at %C",
                       "", "")>>)
     ELSE Step([c EXCEPT !.collapse = r.result], "next", FALSE, <<>>)

aligned_clause(c, it) ==
  LET r == match_omp_variable_list(it, TRUE)
      alignment == IF r.end_colon THEN ParsedExpr(it.expr) ELSE NULL
  IN IF r.m # "MATCH_YES" THEN Step(c, "break", FALSE, <<SyntaxError>>)
     ELSE IF r.end_colon /\ ~(it.expr # "?" /\ it.ok)
     THEN Step(c, "break", FALSE, <<>>)
     ELSE Step([c EXCEPT !.lists["ALIGNED"] =
                  @ \o [i \in 1..Len(r.head) |->
                          Namelist(r.head[i].sym, alignment)]],
               "next", FALSE, <<>>)

linear_step_every_entry(head, step) ==
  [i \in 1..Len(head) |-> Namelist(head[i].sym, step)]

(* the step is stored in the first entry of the sublist, head's expr *)
linear_step(head, step) ==
  [i \in 1..Len(head) |-> IF i = 1 THEN Namelist(head[i].sym, step) ELSE head[i]]

linear_clause(c, it) ==
  LET r == match_omp_variable_list(it, TRUE)
      step == IF r.end_colon THEN ParsedExpr(it.expr) ELSE ParsedExpr("1")
  IN IF r.m # "MATCH_YES" THEN Step(c, "break", FALSE, <<SyntaxError>>)
     ELSE IF r.end_colon /\ ~(it.expr # "?" /\ it.ok)
     THEN Step(c, "break", FALSE, <<>>)
     ELSE Step([c EXCEPT !.lists["LINEAR"] = @ \o linear_step(r.head, step)],
               "next", FALSE, <<>>)

depend_clause(c, it) ==
  IF it.arg \in {"in", "out", "inout"}
  THEN plain_list(c, it, IF it.arg = "in" THEN "DEPEND_IN" ELSE "DEPEND_OUT")
  ELSE Step(c, "break", FALSE, <<>>)

Flags == <<"ordered", "untied", "mergeable", "inbranch", "notinbranch">>

ExprSlot(kw) ==
  CASE kw = "if" -> "if_expr"
    [] kw = "final" -> "final_expr"
    [] kw = "num_threads" -> "num_threads"
    [] kw = "safelen" -> "safelen_expr"
    [] kw = "simdlen" -> "simdlen_expr"

(* the bit of mask that allows a clause *)
OMP_CLAUSE(kw) ==
  CASE kw = "if" -> "OMP_CLAUSE_IF"
    [] kw = "final" -> "OMP_CLAUSE_FINAL"
    [] kw = "num_threads" -> "OMP_CLAUSE_NUM_THREADS"
    [] kw = "private" -> "OMP_CLAUSE_PRIVATE"
    [] kw = "firstprivate" -> "OMP_CLAUSE_FIRSTPRIVATE"
    [] kw = "lastprivate" -> "OMP_CLAUSE_LASTPRIVATE"
    [] kw = "copyprivate" -> "OMP_CLAUSE_COPYPRIVATE"
    [] kw = "shared" -> "OMP_CLAUSE_SHARED"
    [] kw = "copyin" -> "OMP_CLAUSE_COPYIN"
    [] kw = "reduction" -> "OMP_CLAUSE_REDUCTION"
    [] kw = "default" -> "OMP_CLAUSE_DEFAULT"
    [] kw = "schedule" -> "OMP_CLAUSE_SCHEDULE"
    [] kw = "ordered" -> "OMP_CLAUSE_ORDERED"
    [] kw = "untied" -> "OMP_CLAUSE_UNTIED"
    [] kw = "mergeable" -> "OMP_CLAUSE_MERGEABLE"
    [] kw = "collapse" -> "OMP_CLAUSE_COLLAPSE"
    [] kw = "inbranch" -> "OMP_CLAUSE_INBRANCH"
    [] kw = "notinbranch" -> "OMP_CLAUSE_NOTINBRANCH"
    [] kw = "proc_bind" -> "OMP_CLAUSE_PROC_BIND"
    [] kw = "safelen" -> "OMP_CLAUSE_SAFELEN"
    [] kw = "simdlen" -> "OMP_CLAUSE_SIMDLEN"
    [] kw = "uniform" -> "OMP_CLAUSE_UNIFORM"
    [] kw = "aligned" -> "OMP_CLAUSE_ALIGNED"
    [] kw = "linear" -> "OMP_CLAUSE_LINEAR"
    [] kw = "depend" -> "OMP_CLAUSE_DEPEND"
    [] OTHER -> "none"

(* a slot that still has the value gfc_get_omp_clauses gave it; the        *)
(* mutant matches a scalar clause whether or not it is set                 *)
slot_is_clear_always(c, slot) == TRUE

slot_is_clear(c, slot) == c[slot] = gfc_get_omp_clauses[slot]

(* The recognizers of the loop body, tried in the order of the code at the *)
(* clause `it`; the first that matches decides.                            *)
recognize(c, mask, it) ==
  LET kw == it.kw
      allowed == OMP_CLAUSE(kw) \in mask
      no_match == Step(c, "break", FALSE, <<>>)
  IN IF ~allowed THEN no_match
     ELSE IF kw \in {"if", "final", "num_threads", "safelen", "simdlen"}
     THEN IF slot_is_clear(c, ExprSlot(kw)) /\ match_expr(it, kw)
          THEN Step([c EXCEPT ![ExprSlot(kw)] = ParsedExpr(it.expr)],
                    "next", FALSE, <<>>)
          ELSE no_match
     ELSE IF kw \in {PlainLists[i] : i \in 1..Len(PlainLists)} \/ kw = "uniform"
     THEN plain_list(c, it, ListOf(kw))
     ELSE IF kw = "reduction" THEN reduction_clause(c, it)
     ELSE IF kw = "default"
     THEN IF slot_is_clear(c, "default_sharing") /\ it.ok
             /\ default_sharing(it.arg) # "OMP_DEFAULT_UNKNOWN"
          THEN Step([c EXCEPT !.default_sharing = default_sharing(it.arg)],
                    "next", FALSE, <<>>)
          ELSE no_match
     ELSE IF kw = "schedule"
     THEN IF slot_is_clear(c, "sched_kind") THEN schedule_clause(c, it)
          ELSE no_match
     ELSE IF kw \in {Flags[i] : i \in 1..Len(Flags)}
     THEN IF slot_is_clear(c, kw)
          THEN Step([c EXCEPT ![kw] = TRUE], "next", TRUE, <<>>)
          ELSE no_match
     ELSE IF kw = "collapse"
     THEN IF slot_is_clear(c, "collapse") /\ it.expr \notin {"", "?"} /\ it.ok
          THEN collapse_clause(c, it)
          ELSE no_match
     ELSE IF kw = "proc_bind"
     THEN IF slot_is_clear(c, "proc_bind") /\ it.ok
             /\ proc_bind(it.arg) # "OMP_PROC_BIND_UNKNOWN"
          THEN Step([c EXCEPT !.proc_bind = proc_bind(it.arg)], "next", FALSE, <<>>)
          ELSE no_match
     ELSE IF kw = "aligned" THEN aligned_clause(c, it)
     ELSE IF kw = "linear" THEN linear_clause(c, it)
     ELSE IF kw = "depend" THEN depend_clause(c, it)
     ELSE no_match

(* The frame of a call: the locus, the two flags, the mask and c; passed   *)
(* keeps the values the caller gave for the flags the loop overwrites.     *)
Frame(mask, first, space) ==
  [locus |-> 1, first |-> first, needs_space |-> space, mask |-> mask,
   c |-> gfc_get_omp_clauses, how |-> "next", errors |-> <<>>,
   passed |-> [first |-> first, needs_space |-> space]]

(* One iteration of the while loop: the separator test, then the           *)
(* recognizers.  A comma is looked for only when first is FALSE; a comma   *)
(* that was not consumed is text no recognizer matches.                    *)
clause_loop(text, f) ==
  LET it == ItemAt(text, f.locus)
      comma == ~f.first /\ it.sep = ","
      space == it.sep = " "
      r == recognize(f.c, f.mask, it)
  IN IF (f.first \/ ~comma) /\ (f.needs_space /\ ~space)
     THEN [f EXCEPT !.how = "break"]
     ELSE IF it.sep = "," /\ ~comma
     THEN [f EXCEPT !.how = "break", !.first = FALSE, !.needs_space = FALSE]
     ELSE [f EXCEPT !.locus = IF r.how = "next" THEN f.locus + 1 ELSE f.locus,
                    !.first = FALSE, !.needs_space = r.needs_space,
                    !.c = r.c, !.how = r.how, !.errors = f.errors \o r.errors]

(* after the loop: gfc_match_omp_eos decides what the caller gets *)
Matched(m, c, errs) == [m |-> m, cp |-> c, errors |-> errs]

(* the mutant hands the clause set to the caller whatever it returns *)
after_clause_loop_keeps_c(text, f) ==
  IF f.how = "return" \/ gfc_match_omp_eos(text, f.locus) # "MATCH_YES"
  THEN Matched("MATCH_ERROR", f.c, f.errors)
  ELSE Matched("MATCH_YES", f.c, f.errors)

after_clause_loop(text, f) ==
  IF f.how = "return" THEN Matched("MATCH_ERROR", NULL, f.errors)
  ELSE IF gfc_match_omp_eos(text, f.locus) # "MATCH_YES"
  THEN Matched("MATCH_ERROR", NULL, f.errors)
  ELSE Matched("MATCH_YES", f.c, f.errors)

RECURSIVE run_clause_loop(_, _)
run_clause_loop(text, f) ==
  IF f.how # "next" THEN f ELSE run_clause_loop(text, clause_loop(text, f))

(* the whole call *)
gfc_match_omp_clauses(text, mask, first, space) ==
  after_clause_loop(text, run_clause_loop(text, Frame(mask, first, space)))

(***************************************************************************)
(* Directive lines.  Expressions are the texts e1 and e2, variables a and  *)
(* b.  A line has at most MaxItems clauses; the first follows the          *)
(* directive name after a blank, the others are separated all by commas,   *)
(* all by blanks or not at all.                                            *)
(***************************************************************************)
AllClauseBits ==
  {OMP_CLAUSE(kw) : kw \in
     {"if", "final", "num_threads", "private", "firstprivate", "lastprivate",
      "copyprivate", "shared", "copyin", "reduction", "default", "schedule",
      "ordered", "untied", "mergeable", "collapse", "inbranch", "notinbranch",
      "proc_bind", "safelen", "simdlen", "uniform", "aligned", "linear",
      "depend"}}

OMP_DECLARE_SIMD_CLAUSES ==
  {"OMP_CLAUSE_SIMDLEN", "OMP_CLAUSE_LINEAR", "OMP_CLAUSE_UNIFORM",
   "OMP_CLAUSE_ALIGNED"}

ExprClause(kw, e) == Item("", kw, "", <<>>, e, TRUE)
ValueClause(kw, arg) == Item("", kw, arg, <<>>, "", TRUE)
ListClause(kw, arg, names, e) == Item("", kw, arg, names, e, TRUE)

ScalarClauses ==
  {ExprClause(kw, e) :
     kw \in {"if", "final", "num_threads", "safelen", "simdlen"},
     e \in {"e1", "e2"}}
  \cup {ValueClause("default", "shared"), ValueClause("default", "none"),
        ValueClause("schedule", "runtime"),
        Item("", "schedule", "static", <<>>, "e1", TRUE),
        ValueClause("proc_bind", "close"), ValueClause("proc_bind", "master"),
        ExprClause("collapse", "2"), ExprClause("collapse", "0")}
  \cup {ValueClause(Flags[i], "") : i \in 1..Len(Flags)}

ListClauses ==
  {ListClause("private", "", <<"a">>, ""), ListClause("private", "", <<"b">>, ""),
   ListClause("shared", "", <<"b">>, ""),
   ListClause("reduction", "+", <<"a">>, ""),
   ListClause("reduction", "max", <<"b">>, ""),
   ListClause("aligned", "", <<"a">>, "e1"),
   ListClause("linear", "", <<"a", "b">>, ""),
   ListClause("depend", "inout", <<"a">>, ""),
   ListClause("depend", "out", <<"b">>, "")}

(* text that is no clause: a list that is not closed, a colon that is not  *)
(* followed by an expression, an unknown reduction operator, a user        *)
(* procedure named like a reduction intrinsic, anything else               *)
BadClauses ==
  {Item("", "private", "", <<"a">>, "", FALSE),
   ListClause("aligned", "", <<"a">>, "?"),
   ListClause("reduction", "foo", <<"a">>, ""),
   [ListClause("reduction", "max", <<"a">>, "") EXCEPT !.intrinsic = FALSE],
   ExprClause("if", "?"),
   Item("", "junk", "", <<>>, "", TRUE)}

Separated(seq, sep1, sep) ==
  [i \in 1..Len(seq) |-> [seq[i] EXCEPT !.sep = IF i = 1 THEN sep1 ELSE sep]]

RECURSIVE SeqsUpTo(_, _)
SeqsUpTo(S, n) ==
  IF n = 0 THEN {<<>>}
  ELSE LET shorter == SeqsUpTo(S, n - 1)
       IN shorter \cup {Append(q, x) : q \in shorter, x \in S}

Lines(S, n, firsts) ==
  {Separated(q, sep1, sep) :
     q \in SeqsUpTo(S, n), sep1 \in firsts, sep \in {",", " ", ""}}

(* the clauses of the longer lines *)
CoreClauses ==
  {ExprClause("if", "e1"), ValueClause("ordered", ""),
   ValueClause("default", "none"), Item("", "schedule", "static", <<>>, "e1", TRUE),
   ListClause("private", "", <<"a">>, ""), ListClause("private", "", <<"b">>, ""),
   ListClause("reduction", "+", <<"a">>, ""), ListClause("linear", "", <<"a", "b">>, ""),
   ListClause("aligned", "", <<"a">>, "e1"),
   Item("", "junk", "", <<>>, "", TRUE)}

(* the calls: a directive that allows every clause, with every line of up  *)
(* to two clauses and the lines of up to MaxItems core clauses; cancel,    *)
(* which passes first = false; declare simd, which passes needs_space =    *)
(* false                                                                   *)
ParserCalls ==
  {[text |-> t, mask |-> AllClauseBits, first |-> TRUE, needs_space |-> TRUE] :
     t \in Lines(ScalarClauses \cup ListClauses \cup BadClauses, 2, {" "})
            \cup Lines(CoreClauses, MaxItems, {" "})}
  \cup
  {[text |-> t, mask |-> {"OMP_CLAUSE_IF"}, first |-> FALSE, needs_space |-> TRUE] :
     t \in Lines({ExprClause("if", "e1"), ExprClause("if", "e2"),
                  ListClause("private", "", <<"a">>, "")}, MaxItems, {" ", ","})}
  \cup
  {[text |-> t, mask |-> OMP_DECLARE_SIMD_CLAUSES, first |-> TRUE,
    needs_space |-> FALSE] :
     t \in Lines({ExprClause("simdlen", "e1"), ListClause("uniform", "", <<"a">>, ""),
                  ListClause("linear", "", <<"a">>, "e1"),
                  ValueClause("inbranch", "")}, MaxItems, {" ", "", ","})}

ParseInit(calls) ==
  /\ pc = "gfc_match_omp_clauses.loop"
  /\ \E call \in calls :
       /\ directive_text = call.text
       /\ parser = Frame(call.mask, call.first, call.needs_space)
  /\ cp = NULL /\ matched = "none"
  /\ errors = <<>>
  /\ NoKernels /\ NoClauses /\ NoDo /\ NoContext

(* one iteration of the while loop *)
match_clause ==
  /\ pc = "gfc_match_omp_clauses.loop"
  /\ parser.how = "next"
  /\ parser' = clause_loop(directive_text, parser)
  /\ errors' = parser'.errors
  /\ UNCHANGED <<pc, directive_text, cp, matched, kvars, cvars, dvars, xvars>>

(* the end of the function: gfc_match_omp_eos, then *cp and the return *)
return_match ==
  /\ pc = "gfc_match_omp_clauses.loop"
  /\ parser.how # "next"
  /\ LET r == after_clause_loop(directive_text, parser)
     IN /\ matched' = r.m
        /\ cp' = r.cp
  /\ pc' = "matched"
  /\ UNCHANGED <<directive_text, parser, errors, kvars, cvars, dvars, xvars>>

ParseNext == match_clause \/ return_match

SpecParse == ParseInit(ParserCalls) /\ [][ParseNext]_vars

(***************************************************************************)
(* List accumulation: a list clause written twice, with the lists L1 and   *)
(* L2, against the same clause written once with L1, L2.                   *)
(***************************************************************************)
MaxVars == 2

VarLists == SeqsUpTo({"a", "b"}, MaxVars) \ {<<>>}

(* every list clause: keyword, keyword argument, with or without the       *)
(* trailing expression that aligned and linear take                        *)
ListShapes ==
  {ListClause(PlainLists[i], "", <<>>, "") : i \in 1..Len(PlainLists)}
  \cup {ListClause("uniform", "", <<>>, "")}
  \cup {ListClause(kw, "", <<>>, e) : kw \in {"aligned", "linear"}, e \in {"", "e1"}}
  \cup {ListClause("reduction", op, <<>>, "") :
          op \in {"+", "*", "-", ".and.", ".or.", ".eqv.", ".neqv."}
                 \cup ReductionNames}
  \cup {ListClause("depend", kind, <<>>, "") : kind \in {"in", "out", "inout"}}

AccumulationCalls ==
  {[text |-> Separated(<<[sh EXCEPT !.vars = L1], [sh EXCEPT !.vars = L2]>>,
                       " ", sep),
    mask |-> AllClauseBits, first |-> TRUE, needs_space |-> TRUE] :
     sh \in ListShapes, L1 \in VarLists, L2 \in VarLists, sep \in {",", " "}}

SpecLists == ParseInit(AccumulationCalls) /\ [][ParseNext]_vars

(* the call that is running or has returned, made again on another text *)
SameCall(text) ==
  gfc_match_omp_clauses(text, parser.mask, parser.passed.first,
                        parser.passed.needs_space)

(* the line with the two lists written as one clause *)
WrittenOnce(text) == <<[text[1] EXCEPT !.vars = text[1].vars \o text[2].vars]>>

ListTwice ==
  /\ pc = "matched"
  /\ Len(directive_text) = 2
  /\ directive_text[1].kw = directive_text[2].kw
  /\ directive_text[1].arg = directive_text[2].arg
  /\ directive_text[1].expr = directive_text[2].expr
  /\ \E sh \in ListShapes : sh.kw = directive_text[1].kw

(* C14: a list clause written twice with the lists L1 and L2 gives the     *)
(* same lists, entry for entry and in the same order, as the clause        *)
(* written once with the list L1, L2.                                      *)
C14_ListAccumulation ==
  ListTwice =>
    LET once == SameCall(WrittenOnce(directive_text))
    IN /\ matched = "MATCH_YES" /\ once.m = "MATCH_YES"
       /\ cp.lists = once.cp.lists

(* the same for every list clause but linear *)
C14_EveryListButLinear ==
  (ListTwice /\ directive_text[1].kw # "linear") =>
    LET once == SameCall(WrittenOnce(directive_text))
    IN /\ matched = "MATCH_YES" /\ once.m = "MATCH_YES"
       /\ cp.lists = once.cp.lists

(***************************************************************************)
(* Clause sets: lines of clauses that are each written as the syntax asks, *)
(* are allowed by the mask and are separated by commas or blanks.          *)
(***************************************************************************)
ScalarKeywords ==
  {"if", "final", "num_threads", "default", "schedule", "ordered", "untied",
   "mergeable", "collapse", "inbranch", "notinbranch", "proc_bind", "safelen",
   "simdlen"}

ScalarSlots ==
  {"if_expr", "final_expr", "num_threads", "default_sharing", "sched_kind",
   "chunk_size", "ordered", "untied", "mergeable", "collapse", "inbranch",
   "notinbranch", "proc_bind", "safelen_expr", "simdlen_expr"}

WellWritten(it) ==
  LET kw == it.kw
      list == it.vars # <<>> /\ it.ok
  IN CASE kw \in {"if", "final", "num_threads", "safelen", "simdlen", "collapse"} ->
            it.expr \notin {"", "?"} /\ it.ok
       [] kw \in {PlainLists[i] : i \in 1..Len(PlainLists)} \cup {"uniform"} ->
            list /\ it.expr = ""
       [] kw = "reduction" ->
            list /\ it.expr = "" /\ it.intrinsic
            /\ it.arg \in {"+", "*", "-", ".and.", ".or.", ".eqv.", ".neqv."}
                          \cup ReductionNames
       [] kw = "default" ->
            it.ok /\ it.arg \in {"shared", "private", "none", "firstprivate"}
       [] kw = "schedule" ->
            /\ it.ok /\ it.expr # "?"
            /\ \/ it.arg \in {"static", "dynamic", "guided"}
               \/ it.arg \in {"runtime", "auto"} /\ it.expr = ""
       [] kw \in {Flags[i] : i \in 1..Len(Flags)} -> TRUE
       [] kw = "proc_bind" -> it.ok /\ it.arg \in {"master", "spread", "close"}
       [] kw \in {"aligned", "linear"} -> list /\ it.expr # "?"
       [] kw = "depend" ->
            list /\ it.expr = "" /\ it.arg \in {"in", "out", "inout"}
       [] OTHER -> FALSE

NoScalarTwice(text) ==
  \A i \in 1..Len(text), j \in 1..Len(text) :
     (i < j /\ text[i].kw \in ScalarKeywords) => text[i].kw # text[j].kw

(* the first clause follows the directive name as the call asks: after a   *)
(* blank, after a comma when the call looks for one, or at once when the   *)
(* call does not need the blank                                            *)
WellSeparated(text, f) ==
  \A i \in 1..Len(text) :
     IF i > 1 THEN text[i].sep \in {",", " "}
     ELSE \/ text[i].sep = " "
          \/ text[i].sep = "," /\ ~f.passed.first
          \/ text[i].sep = "" /\ ~f.passed.needs_space

ClauseSet(text, f) ==
  /\ \A i \in 1..Len(text) :
        WellWritten(text[i]) /\ OMP_CLAUSE(text[i].kw) \in f.mask
  /\ NoScalarTwice(text)
  /\ WellSeparated(text, f)

(* the clauses in the order p, the separators where they were *)
Permuted(text, p) == [i \in 1..Len(text) |-> [text[p[i]] EXCEPT !.sep = text[i].sep]]

Count(list, n) == Cardinality({i \in 1..Len(list) : list[i] = n})

SameMembers(l1, l2) ==
  /\ Len(l1) = Len(l2)
  /\ \A i \in 1..Len(l1) : Count(l1, l1[i]) = Count(l2, l1[i])

Equivalent(c1, c2) ==
  /\ \A slot \in ScalarSlots : c1[slot] = c2[slot]
  /\ \A list \in ListNames : SameMembers(c1.lists[list], c2.lists[list])

(* C15: a line of clauses that the mask allows, with no scalar clause      *)
(* twice, is accepted in every order of its clauses, and every order gives *)
(* an equivalent clause set: the same scalar slots and flags and in every  *)
(* list the same members.                                                  *)
C15_PermutationInvariance ==
  (pc = "matched" /\ ClauseSet(directive_text, parser)) =>
    /\ matched = "MATCH_YES"
    /\ \A p \in Permutations(1..Len(directive_text)) :
         LET r == SameCall(Permuted(directive_text, p))
         IN r.m = "MATCH_YES" /\ Equivalent(cp, r.cp)

(* a flag clause before a list clause, and a list clause twice *)
C15_Witness ==
  /\ pc = "matched" /\ ClauseSet(directive_text, parser)
  /\ Len(directive_text) >= 2
  /\ directive_text[1].kw = "ordered"
  /\ directive_text[2].kw = "private"
  /\ cp # NULL /\ cp.ordered /\ cp.lists["PRIVATE"] # <<>>

(***************************************************************************)
(* What the caller gets.                                                   *)
(***************************************************************************)
(* the loop stopped at text that is not the end of the line *)
StoppedBeforeEnd == parser.locus <= Len(directive_text)

(* a clause of the line is not written as the syntax asks: a variable list *)
(* that is not closed or is empty, a colon without an expression after it  *)
Malformed(text) == \E i \in 1..Len(text) : ~WellWritten(text[i])

(* C16: when gfc_match_omp_clauses does not succeed it returns MATCH_ERROR *)
(* and the caller's pointer is NULL, whatever had been built; it fails     *)
(* when the loop stops before the end of the line, and so for every        *)
(* malformed clause; when it succeeds the pointer is the clause set built. *)
C16_NoPartialClauseSet ==
  /\ pc # "matched" => (cp = NULL /\ matched = "none")
  /\ pc = "matched" =>
       /\ matched \in {"MATCH_YES", "MATCH_ERROR"}
       /\ matched = "MATCH_ERROR" => cp = NULL
       /\ matched = "MATCH_YES" => (cp # NULL /\ cp = parser.c)
       /\ (StoppedBeforeEnd \/ Malformed(directive_text)) => matched = "MATCH_ERROR"
       /\ matched = "MATCH_YES" <=> (~StoppedBeforeEnd /\ parser.how = "break")

(* a clause set with a list in it had been built when the parse failed at  *)
(* a malformed clause                                                      *)
C16_Witness ==
  /\ pc = "matched" /\ matched = "MATCH_ERROR" /\ cp = NULL
  /\ parser.c # NULL /\ parser.c.lists["PRIVATE"] # <<>>
  /\ parser.locus = 2
  /\ directive_text[2].kw \in {"aligned", "private"}
  /\ ~WellWritten(directive_text[2])

ScalarTwice(text) == ~NoScalarTwice(text)

IsSet(c, slot) == c[slot] # gfc_get_omp_clauses[slot]

(* C17: a scalar slot that is set is not written again by a later clause   *)
(* (nor is the chunk size once the schedule kind is set), and a line with  *)
(* a scalar clause twice gives MATCH_ERROR and no clause set.              *)
C17_ScalarClauseOnce ==
  /\ [][(parser.c # NULL /\ parser'.c # NULL) =>
          /\ \A slot \in ScalarSlots :
                IsSet(parser.c, slot) => parser'.c[slot] = parser.c[slot]
          /\ IsSet(parser.c, "sched_kind") =>
                parser'.c.chunk_size = parser.c.chunk_size]_vars
  /\ []((pc = "matched" /\ ScalarTwice(directive_text)) =>
          (matched = "MATCH_ERROR" /\ cp = NULL))

(* if (e1) then if (e2): the parse stops at the second, the slot has e1 *)
C17_Witness ==
  /\ pc = "matched" /\ matched = "MATCH_ERROR"
  /\ Len(directive_text) = 2
  /\ directive_text[1].kw = "if" /\ directive_text[2].kw = "if"
  /\ directive_text[1].expr # directive_text[2].expr
  /\ WellWritten(directive_text[1]) /\ WellWritten(directive_text[2])
  /\ parser.locus = 2
  /\ parser.c.if_expr = ParsedExpr(directive_text[1].expr)

(***************************************************************************)
(* The private state of the resolver: omp_current_ctx, the chain of the    *)
(* open parallel constructs through their previous links (innermost first; *)
(* NULL is the empty chain), omp_current_do_code and                       *)
(* omp_current_do_collapse.  The statements are resolved by code outside   *)
(* this file, which calls in: gfc_resolve_omp_parallel_blocks and          *)
(* gfc_resolve_omp_do_blocks around the body of a construct (each is an    *)
(* action up to its call of gfc_resolve_blocks and an action from there    *)
(* on), gfc_omp_save_and_clear_state and gfc_omp_restore_state around the  *)
(* resolution of another program unit, gfc_resolve_do_iterator at a DO     *)
(* statement.  constructs[id] is the directive statement id: its op, its   *)
(* clauses, and how many DO loops are perfectly nested under it.           *)
(***************************************************************************)
MaxConstructs == 2

CtxSyms == {"i", "t"}

ContextSymbols == [s \in CtxSyms |-> Symbol("BT_INTEGER", s = "t")]

(* the level-th DO statement of the nest under construct id; id 0 is a     *)
(* loop under no directive                                                 *)
Loop(id, level) == [op |-> "EXEC_DO", construct |-> id, level |-> level]

Directive(op, clauses, nest) == [op |-> op, clauses |-> clauses, nest |-> nest]

(* c->block->next of a DO statement: the next loop of the nest, or a       *)
(* statement that is no loop                                               *)
block_next(c, cons) ==
  IF c # NULL /\ c.construct > 0 /\ c.level < cons[c.construct].nest
  THEN Loop(c.construct, c.level + 1)
  ELSE NULL

(* the symbols on the clause lists of a directive *)
ListedSyms(clauses) ==
  UNION {{clauses.lists[l][i] : i \in 1..Len(clauses.lists[l])} : l \in ListNames}

omp_context(id, cons) ==
  [code |-> id, sharing_clauses |-> ListedSyms(cons[id].clauses),
   private_iterators |-> {}]

(* gfc_resolve_omp_do_blocks before gfc_resolve_blocks: the tracked loop   *)
(* and how many loops of the nest the directive collapses                  *)
do_blocks_entry(d, id, do_code, do_collapse) ==
  IF d.nest >= 1
  THEN [do_code |-> Loop(id, 1),
        do_collapse |-> IF d.nest < d.clauses.collapse \/ d.clauses.collapse <= 0
                        THEN 1 ELSE d.clauses.collapse]
  ELSE [do_code |-> do_code, do_collapse |-> do_collapse]

IsParallelDo(op) == op \in {"EXEC_OMP_PARALLEL_DO", "EXEC_OMP_PARALLEL_DO_SIMD"}

(* the directives the resolver meets: a parallel construct with i on no    *)
(* list or shared; a parallel do and a do with no loop under them, with    *)
(* one loop, with two loops and collapse(2)                                *)
Directives ==
  {Directive("EXEC_OMP_PARALLEL", [gfc_get_omp_clauses EXCEPT !.lists = lists], 0) :
     lists \in {EmptyLists, [EmptyLists EXCEPT !["SHARED"] = <<"i">>]}}
  \cup
  {Directive(op, [gfc_get_omp_clauses EXCEPT !.collapse = n], n) :
     op \in {"EXEC_OMP_PARALLEL_DO", "EXEC_OMP_DO"}, n \in 0..2}

ContextInit ==
  /\ pc = "gfc_resolve_code"
  /\ omp_current_ctx = <<>> /\ omp_current_do_code = NULL
  /\ omp_current_do_collapse = 0
  /\ saved_state = <<>> /\ call_stack = <<>> /\ constructs = <<>>
  /\ symtab = ContextSymbols
  /\ omp_clauses = <<>> /\ mark = <<>> /\ errors = <<>>
  /\ NoKernels /\ NoDo /\ NoParse

CanCall == Len(call_stack) <= MaxConstructs

(* gfc_resolve_omp_parallel_blocks up to the resolution of the body *)
gfc_resolve_omp_parallel_blocks(d) ==
  /\ CanCall /\ Len(constructs) < MaxConstructs
  /\ d.op # "EXEC_OMP_DO"
  /\ LET id == Len(constructs) + 1
         cons == Append(constructs, d)
         do == IF IsParallelDo(d.op)
               THEN do_blocks_entry(d, id, omp_current_do_code,
                                    omp_current_do_collapse)
               ELSE [do_code |-> omp_current_do_code,
                     do_collapse |-> omp_current_do_collapse]
     IN /\ constructs' = cons
        /\ omp_current_ctx' = <<omp_context(id, cons)>> \o omp_current_ctx
        /\ omp_current_do_code' = do.do_code
        /\ omp_current_do_collapse' = do.do_collapse
        /\ call_stack' = <<[fn |-> "gfc_resolve_omp_parallel_blocks",
                            code |-> id]>> \o call_stack
  /\ UNCHANGED <<pc, saved_state, kvars, cvars, errors, dvars, pvars>>

(* mutant: the context is not popped *)
return_parallel_blocks_keeps_ctx ==
  /\ call_stack # <<>>
  /\ Head(call_stack).fn = "gfc_resolve_omp_parallel_blocks"
  /\ IF IsParallelDo(constructs[Head(call_stack).code].op)
     THEN omp_current_do_collapse' = 0 /\ omp_current_do_code' = NULL
     ELSE UNCHANGED <<omp_current_do_collapse, omp_current_do_code>>
  /\ call_stack' = Tail(call_stack)
  /\ UNCHANGED <<pc, omp_current_ctx, saved_state, constructs, kvars, cvars,
                 errors, dvars, pvars>>

(* its return: the do state is reset when the construct is a parallel do,  *)
(* and the context is popped                                               *)
return_omp_parallel_blocks ==
  /\ call_stack # <<>>
  /\ Head(call_stack).fn = "gfc_resolve_omp_parallel_blocks"
  /\ IF IsParallelDo(constructs[Head(call_stack).code].op)
     THEN omp_current_do_collapse' = 0 /\ omp_current_do_code' = NULL
     ELSE UNCHANGED <<omp_current_do_collapse, omp_current_do_code>>
  /\ omp_current_ctx' = Tail(omp_current_ctx)
  /\ call_stack' = Tail(call_stack)
  /\ UNCHANGED <<pc, saved_state, constructs, kvars, cvars, errors, dvars, pvars>>

(* gfc_resolve_omp_do_blocks up to the resolution of the body *)
gfc_resolve_omp_do_blocks(d) ==
  /\ CanCall /\ Len(constructs) < MaxConstructs
  /\ d.op = "EXEC_OMP_DO"
  /\ LET id == Len(constructs) + 1
         do == do_blocks_entry(d, id, omp_current_do_code, omp_current_do_collapse)
     IN /\ constructs' = Append(constructs, d)
        /\ omp_current_do_code' = do.do_code
        /\ omp_current_do_collapse' = do.do_collapse
        /\ call_stack' = <<[fn |-> "gfc_resolve_omp_do_blocks", code |-> id]>>
                         \o call_stack
  /\ UNCHANGED <<pc, omp_current_ctx, saved_state, kvars, cvars, errors, dvars,
                 pvars>>

(* mutant: the tracked loop and the collapse count are left as they are *)
return_do_blocks_keeps_state ==
  /\ call_stack # <<>>
  /\ Head(call_stack).fn = "gfc_resolve_omp_do_blocks"
  /\ call_stack' = Tail(call_stack)
  /\ UNCHANGED <<pc, omp_current_ctx, omp_current_do_code,
                 omp_current_do_collapse, saved_state, constructs, kvars,
                 cvars, errors, dvars, pvars>>

return_omp_do_blocks ==
  /\ call_stack # <<>>
  /\ Head(call_stack).fn = "gfc_resolve_omp_do_blocks"
  /\ omp_current_do_collapse' = 0
  /\ omp_current_do_code' = NULL
  /\ call_stack' = Tail(call_stack)
  /\ UNCHANGED <<pc, omp_current_ctx, saved_state, constructs, kvars, cvars,
                 errors, dvars, pvars>>

SavedState ==
  [ptrs |-> <<omp_current_ctx, omp_current_do_code>>,
   ints |-> <<omp_current_do_collapse>>]

(* the mutant records the state and leaves it as it is *)
save_state_without_clear ==
  /\ CanCall
  /\ saved_state' = <<SavedState>> \o saved_state
  /\ call_stack' = <<[fn |-> "gfc_omp_save_and_clear_state", code |-> 0]>>
                   \o call_stack
  /\ UNCHANGED <<pc, omp_current_ctx, omp_current_do_code,
                 omp_current_do_collapse, constructs, kvars, cvars, errors,
                 dvars, pvars>>

gfc_omp_save_and_clear_state ==
  /\ CanCall
  /\ saved_state' = <<SavedState>> \o saved_state
  /\ omp_current_ctx' = <<>>
  /\ omp_current_do_code' = NULL
  /\ omp_current_do_collapse' = 0
  /\ call_stack' = <<[fn |-> "gfc_omp_save_and_clear_state", code |-> 0]>>
                   \o call_stack
  /\ UNCHANGED <<pc, constructs, kvars, cvars, errors, dvars, pvars>>

(* the caller that saved the state restores it when what it resolved in    *)
(* between has returned                                                    *)
gfc_omp_restore_state ==
  /\ call_stack # <<>>
  /\ Head(call_stack).fn = "gfc_omp_save_and_clear_state"
  /\ omp_current_ctx' = Head(saved_state).ptrs[1]
  /\ omp_current_do_code' = Head(saved_state).ptrs[2]
  /\ omp_current_do_collapse' = Head(saved_state).ints[1]
  /\ saved_state' = Tail(saved_state)
  /\ call_stack' = Tail(call_stack)
  /\ UNCHANGED <<pc, constructs, kvars, cvars, errors, dvars, pvars>>

(* the loop of gfc_resolve_do_iterator over the collapsed loops: whether   *)
(* code is one of the first i loops from c on                              *)
RECURSIVE is_collapsed_loop(_, _, _, _)
is_collapsed_loop(code, c, i, cons) ==
  IF i >= 1
  THEN IF code = c THEN TRUE
       ELSE is_collapsed_loop(code, block_next(c, cons), i - 1, cons)
  ELSE FALSE

(* mutant: the set of the iterators already added is not consulted *)
resolve_do_iterator_without_set(code, sym) ==
  /\ LET ctx == Head(omp_current_ctx)
         returns ==
           \/ symtab[sym].threadprivate
           \/ is_collapsed_loop(code, omp_current_do_code,
                                omp_current_do_collapse, constructs)
           \/ omp_current_ctx = <<>>
           \/ sym \in ctx.sharing_clauses
     IN IF returns
        THEN UNCHANGED <<omp_current_ctx, constructs>>
        ELSE /\ omp_current_ctx' =
                  [omp_current_ctx EXCEPT ![1].private_iterators = @ \cup {sym}]
             /\ constructs' =
                  [constructs EXCEPT ![ctx.code].clauses.lists["PRIVATE"] =
                     <<sym>> \o @]
  /\ UNCHANGED <<pc, omp_current_do_code, omp_current_do_collapse, saved_state,
                 call_stack, kvars, cvars, errors, dvars, pvars>>

gfc_resolve_do_iterator(code, sym) ==
  /\ LET ctx == Head(omp_current_ctx)
         returns ==
           \/ symtab[sym].threadprivate
           \/ is_collapsed_loop(code, omp_current_do_code,
                                omp_current_do_collapse, constructs)
           \/ omp_current_ctx = <<>>
           \/ sym \in ctx.sharing_clauses
           \/ sym \in ctx.private_iterators
     IN IF returns
        THEN UNCHANGED <<omp_current_ctx, constructs>>
        ELSE /\ omp_current_ctx' =
                  [omp_current_ctx EXCEPT ![1].private_iterators = @ \cup {sym}]
             /\ constructs' =
                  [constructs EXCEPT ![ctx.code].clauses.lists["PRIVATE"] =
                     <<sym>> \o @]
  /\ UNCHANGED <<pc, omp_current_do_code, omp_current_do_collapse, saved_state,
                 call_stack, kvars, cvars, errors, dvars, pvars>>

(* the DO statements the resolver can be at *)
LoopsToResolve ==
  {Loop(0, 1)}
  \cup {Loop(id, level) : id \in 1..Len(constructs), level \in 1..2}

ContextNext ==
  \/ \E d \in Directives : gfc_resolve_omp_parallel_blocks(d)
  \/ return_omp_parallel_blocks
  \/ \E d \in Directives : gfc_resolve_omp_do_blocks(d)
  \/ return_omp_do_blocks
  \/ gfc_omp_save_and_clear_state
  \/ gfc_omp_restore_state
  \/ \E code \in LoopsToResolve, sym \in CtxSyms : gfc_resolve_do_iterator(code, sym)

SpecContext == ContextInit /\ [][ContextNext]_vars

(***************************************************************************)
(* Saving and restoring the private state.                                 *)
(***************************************************************************)
StateTriple ==
  <<omp_current_ctx, omp_current_do_code, omp_current_do_collapse>>

Cleared == StateTriple = <<<<>>, NULL, 0>>

Recorded(state) == <<state.ptrs[1], state.ptrs[2], state.ints[1]>>

(* the directives whose contexts are in a saved record *)
SavedConstructs ==
  UNION {{saved_state[k].ptrs[1][n].code : n \in 1..Len(saved_state[k].ptrs[1])} :
           k \in 1..Len(saved_state)}

(* C18: gfc_omp_save_and_clear_state records the context chain, the        *)
(* tracked loop and the collapse count and clears the three;               *)
(* gfc_omp_restore_state, which runs when all that was called in between   *)
(* has returned, sets the three to what the record holds, and nothing in   *)
(* between changes a record; while the three are cleared no call of        *)
(* gfc_resolve_do_iterator changes a clause list, and as long as a record  *)
(* is held the clauses of the directives of its contexts stay as they are. *)
C18_SaveClearRestore ==
  [][/\ Len(saved_state') > Len(saved_state) =>
          /\ saved_state' = <<SavedState>> \o saved_state
          /\ Recorded(Head(saved_state')) = StateTriple
          /\ Cleared'
     /\ Len(saved_state') < Len(saved_state) =>
          /\ StateTriple' = Recorded(Head(saved_state))
          /\ saved_state' = Tail(saved_state)
     /\ Len(saved_state') = Len(saved_state) => saved_state' = saved_state
     /\ (Cleared /\ call_stack' = call_stack) => constructs' = constructs
     /\ \A id \in SavedConstructs : constructs'[id] = constructs[id]]_vars

(* a parallel do with collapse(2) was open when the state was saved; a     *)
(* parallel construct resolved since then got i on its private list and    *)
(* the state is cleared again                                              *)
C18_Witness ==
  /\ saved_state # <<>> /\ Cleared
  /\ Head(call_stack).fn = "gfc_omp_save_and_clear_state"
  /\ Len(Head(saved_state).ptrs[1]) = 1
  /\ Head(saved_state).ptrs[2] = Loop(1, 1)
  /\ Head(saved_state).ints[1] = 2
  /\ Len(constructs) = 2
  /\ constructs[1].clauses.lists["PRIVATE"] = <<>>
  /\ constructs[2].clauses.lists["PRIVATE"] = <<"i">>

(***************************************************************************)
(* The inner data region of a converted kernels region.                    *)
(***************************************************************************)
(* the bind that holds the child regions *)
DecomposedBody == GBind(<<>>, kernels_region.body.vars, region_body)

(* what maybe_build_inner_data_region returned *)
BuiltBody == new_region.body.eval[1]

Collected == {inner_bind_vars[k] : k \in 1..Len(inner_bind_vars)}

StaysLocal(v) == v.artificial \/ v.tcode = "const_decl" \/ is_template

(* the chain declares exactly the variables of the set, each once *)
Declares(chain, set) ==
  /\ Len(chain) = Cardinality(set)
  /\ {chain[k] : k \in 1..Len(chain)} = set

(* the clauses are one alloc map clause for each variable of the set *)
CreatesEach(clauses, set) ==
  /\ Len(clauses) = Cardinality(set)
  /\ \A v \in set :
       \E k \in 1..Len(clauses) :
          clauses[k].code = "map" /\ clauses[k].kind = "alloc" /\ clauses[k].decl = v

(* the decomposed body, in a new scope that declares the variables of the  *)
(* set when there are any                                                  *)
InLocalScope(stmt, set) ==
  IF set = {} THEN stmt = DecomposedBody
  ELSE /\ stmt.code = "bind" /\ Declares(stmt.vars, set)
       /\ stmt.body = <<DecomposedBody>>

(* C19: of the collected variables the artificial ones, the constants, and *)
(* all of them in a template instantiation, are declared in a new scope    *)
(* around the decomposed body and have no create clause; every other       *)
(* variable is declared in the scope around the inner data region and has  *)
(* exactly one alloc clause on it; the inner data region exists exactly    *)
(* when a variable is mapped.                                              *)
C19_VariablesPartitioned ==
  pc = "done" =>
    LET kept == {v \in Collected : StaysLocal(v)}
        mapped == Collected \ kept
    IN IF mapped = {} THEN InLocalScope(BuiltBody, kept)
       ELSE /\ BuiltBody.code = "bind"
            /\ Declares(BuiltBody.vars, mapped)
            /\ Len(BuiltBody.body) = 1
            /\ LET inside == BuiltBody.body[1]
                   region == IF inside.code = "try" THEN inside.eval[1] ELSE inside
               IN /\ region.code = "omp_target"
                  /\ region.kind = "oacc_data_kernels"
                  /\ CreatesEach(region.clauses, mapped)
                  /\ InLocalScope(region.body.eval[1], kept)

(* a temporary and a user variable were collected *)
C19_Witness ==
  /\ pc = "done" /\ ~is_template
  /\ \E v \in Collected : StaysLocal(v)
  /\ \E v \in Collected : ~StaysLocal(v)
  /\ BuiltBody.code = "bind"
  /\ BuiltBody.body[1].code = "omp_target"

(***************************************************************************)
(* The clauses of the loops of the parallel-loop regions.                  *)
(***************************************************************************)
LoopKinds == {"auto", "independent", "seq"}

KindsOn(clauses) ==
  {k \in 1..Len(clauses) : clauses[k].code \in LoopKinds}

(* the loops a statement holds, at any depth of binds and try statements *)
RECURSIVE LoopsIn(_)
LoopsIn(stmt) ==
  IF stmt.code = "omp_for" THEN {stmt}
  ELSE IF stmt.code = "bind"
  THEN UNION {LoopsIn(stmt.body[i]) : i \in 1..Len(stmt.body)}
  ELSE IF stmt.code = "try"
  THEN UNION {LoopsIn(stmt.eval[i]) : i \in 1..Len(stmt.eval)}
  ELSE {}

(* the loops a parallel-loop region wraps *)
WrappedLoops(region) == LoopsIn(region.body)

(* the loops of the kernels region, as they were before the conversion *)
ScannedLoops ==
  {top_level_omp_for_in_stmt(Scanned[k]) : k \in {i \in 1..Len(Scanned) : IsLoopAt(i)}}

ParallelLoopRegions ==
  {k \in 1..Len(region_body) : region_body[k].kind = Parallelized}

MaxScope == 3

ScopeAtoms(id) ==
  { GAssign(id, Temp(id)),
    GCall(id),
    GOmpFor(id, <<>>),
    GTry(id, <<GOmpFor(id \o <<1>>, <<>>)>>, <<>>),
    GBind(id, <<>>, <<GOmpFor(id \o <<1>>, <<>>)>>) }

RECURSIVE ScopeBodies(_, _)
ScopeBodies(id, n) ==
  IF n = 0 THEN {<<>>}
  ELSE {Append(b, s) : b \in ScopeBodies(id, n - 1), s \in ScopeAtoms(id \o <<n>>)}

GuardedBodies(id) ==
  { <<>>, <<GOmpFor(id \o <<1>>, <<>>)>>, <<GCall(id \o <<1>>)>>,
    <<GOmpFor(id \o <<1>>, <<>>), GCall(id \o <<2>>)>>,
    <<GAssign(id \o <<1>>, Temp(id)), GOmpFor(id \o <<2>>, <<>>)>>,
    <<GBind(id \o <<1>>, <<>>, <<GOmpFor(id \o <<1, 1>>, <<>>)>>)>> }

ShapeStmts(id) ==
  {GOmpFor(id, <<>>), GAssign(id, Temp(id)), GCall(id)}
  \cup {GBind(id, <<UserVar(id)>>, b) :
          b \in UNION {ScopeBodies(id, n) : n \in 0..MaxScope}}
  \cup {GBind(id, <<UserVar(id)>>,
              <<GTry(id \o <<1>>, e, <<GAssign(id \o <<1, 0>>, UserVar(id))>>)>>) :
          e \in GuardedBodies(id \o <<1>>)}

ShapeInputs ==
  {[region |-> KernelsRegion(<<>>, <<s>> \o rest), template |-> FALSE] :
     s \in ShapeStmts(<<1>>),
     rest \in {<<>>, <<GCall(<<2>>)>>, <<GOmpFor(<<2>>, <<>>)>>}}

ShapesInit ==
  /\ pc = "transform_kernels_region"
  /\ \E in \in ShapeInputs :
       /\ kernels_region = in.region
       /\ original_region = in.region
       /\ is_template = in.template
  /\ data_clauses = <<>> /\ num_gangs_clause = NULL /\ kernels_clauses = <<>>
  /\ inner_bind_vars = <<>> /\ inner_cleanup = <<>> /\ body_sequence = <<>>
  /\ region_body = <<>> /\ gang_single_seq = <<>>
  /\ only_simple_assignments = TRUE /\ new_region = NULL
  /\ NoClauses /\ NoDo /\ NoParse /\ NoContext /\ errors = <<>>

SpecShapes == ShapesInit /\ [][KernelsNext]_vars

(* the statements of a statement: itself and those its scopes and guarded  *)
(* blocks hold, at any depth                                               *)
RECURSIVE StmtsIn(_)
StmtsIn(stmt) ==
  {stmt} \cup
  (IF stmt.code = "bind"
   THEN UNION {StmtsIn(stmt.body[i]) : i \in 1..Len(stmt.body)}
   ELSE IF stmt.code = "try"
   THEN UNION {StmtsIn(stmt.eval[i]) : i \in 1..Len(stmt.eval)}
   ELSE {})

(* every statement of the kernels region as the pass found it and of the   *)
(* statements the scan has still to look at                                *)
ExaminedStmts ==
  UNION {StmtsIn(original_region.body.body[i]) : i \in 1..Len(original_region.body.body)}
  \cup UNION {StmtsIn(body_sequence[i]) : i \in 1..Len(body_sequence)}

IsTheLoop(stmt) == stmt.code = "omp_for"

OnlyStmt(seq) == Len(seq) = 1

(* the loop of the four shapes, NULL for any other statement *)
LoopOfShape(stmt) ==
  IF IsTheLoop(stmt) THEN stmt
  ELSE IF stmt.code # "bind" THEN NULL
  ELSE IF OnlyStmt(stmt.body) /\ IsTheLoop(stmt.body[1]) THEN stmt.body[1]
  ELSE IF /\ OnlyStmt(stmt.body) /\ stmt.body[1].code = "try"
          /\ OnlyStmt(stmt.body[1].eval) /\ IsTheLoop(stmt.body[1].eval[1])
       THEN stmt.body[1].eval[1]
  ELSE IF /\ Len(stmt.body) >= 2
          /\ \A k \in 1..(Len(stmt.body) - 1) : stmt.body[k].code = "assign"
          /\ IsTheLoop(stmt.body[Len(stmt.body)])
       THEN stmt.body[Len(stmt.body)]
  ELSE NULL

(* C21: top_level_omp_for_in_stmt returns the loop for the loop itself, a  *)
(* scope holding only the loop, a scope holding only a guarded block that  *)
(* holds only the loop, and a scope of two or more statements that are     *)
(* assignments but for the last, the loop; for every other statement it    *)
(* returns NULL.                                                           *)
C21_TopLevelLoopShapes ==
  \A stmt \in ExaminedStmts : top_level_omp_for_in_stmt(stmt) = LoopOfShape(stmt)

(* a scope of two assignments and the loop has been put in a parallelized  *)
(* region, and a scope where a call follows the loop has not               *)
C21_Witness ==
  /\ pc = "done"
  /\ LET stmt == original_region.body.body[1]
     IN /\ stmt.code = "bind" /\ Len(stmt.body) = 3
        /\ stmt.body[3].code = "omp_for"
        /\ LoopOfShape(stmt) # NULL
  /\ region_body[1].kind = Parallelized
  /\ \E s \in ShapeStmts(<<1>>) :
        /\ s.code = "bind" /\ Len(s.body) = 2
        /\ s.body[1].code = "omp_for" /\ s.body[2].code = "call"
        /\ top_level_omp_for_in_stmt(s) = NULL

(***************************************************************************)
(* The private lists gfc_resolve_do_iterator adds to.                      *)
(***************************************************************************)
PrivateList(cons, id) == cons[id].clauses.lists["PRIVATE"]

TimesListed(list, sym) == Cardinality({k \in 1..Len(list) : list[k] = sym})

(* the directive whose context is the current one *)
CurrentDirective == Head(omp_current_ctx).code

(* C22: a step changes the clauses of a directive only by putting one      *)
(* symbol at the head of its private list; the directive is the one of the *)
(* current context, and the symbol is not thread-private and was on none   *)
(* of the directive's lists, neither from the directive line nor from an   *)
(* earlier call.  So no symbol is on a private list twice, and no          *)
(* thread-private symbol is on one.                                        *)
C22_PrivateAtMostOnce ==
  /\ [](\A id \in 1..Len(constructs) : \A sym \in CtxSyms :
          /\ TimesListed(PrivateList(constructs, id), sym) <= 1
          /\ symtab[sym].threadprivate =>
               TimesListed(PrivateList(constructs, id), sym) = 0)
  /\ [][\A id \in 1..Len(constructs) :
          constructs'[id] # constructs[id] =>
            /\ omp_current_ctx # <<>> /\ CurrentDirective = id
            /\ \E sym \in CtxSyms :
                 /\ ~symtab[sym].threadprivate
                 /\ sym \notin ListedSyms(constructs[id].clauses)
                 /\ sym \notin Head(omp_current_ctx).sharing_clauses
                 /\ constructs'[id] =
                      [constructs[id] EXCEPT !.clauses.lists["PRIVATE"] =
                         <<sym>> \o @]]_vars

(* i was shared on the first parallel construct, whose private list is     *)
(* still empty after its resolution; the second is open and has i on its   *)
(* private list, once                                                      *)
C22_Witness ==
  /\ Len(constructs) = 2
  /\ constructs[1].op = "EXEC_OMP_PARALLEL"
  /\ constructs[1].clauses.lists["SHARED"] = <<"i">>
  /\ PrivateList(constructs, 1) = <<>>
  /\ Len(omp_current_ctx) = 1 /\ CurrentDirective = 2
  /\ Head(omp_current_ctx).private_iterators = {"i"}
  /\ PrivateList(constructs, 2) = <<"i">>

(***************************************************************************)
(* The collapsed loops of the loop construct whose body is being resolved. *)
(***************************************************************************)
IsForFrame(frame) ==
  \/ frame.fn = "gfc_resolve_omp_do_blocks"
  \/ /\ frame.fn = "gfc_resolve_omp_parallel_blocks"
     /\ IsParallelDo(constructs[frame.code].op)

(* how many loops of the nest under directive d are collapsed *)
CollapsedCount(d) ==
  IF d.nest = 0 THEN 0
  ELSE IF d.nest < d.clauses.collapse \/ d.clauses.collapse <= 0 THEN 1
  ELSE d.clauses.collapse

(* the loop statements a call of gfc_resolve_do_iterator can be for when   *)
(* the resolution of the body of a loop construct is what runs: the        *)
(* collapsed loops of that construct                                       *)
CollapsedLoopsOfInnermostFor ==
  IF call_stack # <<>> /\ IsForFrame(Head(call_stack))
  THEN {Loop(Head(call_stack).code, level) :
          level \in 1..CollapsedCount(constructs[Head(call_stack).code])}
  ELSE {}

(* C23: a call of gfc_resolve_do_iterator for one of the collapsed loops   *)
(* of the innermost loop construct whose body is being resolved changes no *)
(* private list, whatever was resolved in that body before.                *)
C23_CollapsedLoopNoAction ==
  \A code \in CollapsedLoopsOfInnermostFor : \A sym \in CtxSyms :
     ~ ENABLED (gfc_resolve_do_iterator(code, sym) /\ constructs' # constructs)

(* The same as long as the loop of that construct is the tracked one,      *)
(* which it is until a loop construct nested in the body has returned.     *)
C23_NoActionWhileTracked ==
  \A code \in CollapsedLoopsOfInnermostFor : \A sym \in CtxSyms :
     omp_current_do_code = Loop(Head(call_stack).code, 1) =>
       ~ ENABLED (gfc_resolve_do_iterator(code, sym) /\ constructs' # constructs)

(***************************************************************************)
(* What resolve_omp_do reports after a nest that is not perfect.           *)
(***************************************************************************)
IsNoOp(op) == op \in {"EXEC_NOP", "EXEC_CONTINUE"}

(* a statement other than a no-op follows the loop of level k *)
ImperfectAt(k) ==
  \E t \in 1..Len(do_nest[k].next) : ~IsNoOp(do_nest[k].next[t])

ReportedAt(msg, level) ==
  \E e \in 1..Len(errors) : errors[e].msg = msg /\ errors[e].level = level

(* the directive collapses n >= 2 loops, the nest has n DO loops, and the  *)
(* first loop followed by a statement that is no no-op is that of level k  *)
FirstImperfectLevel(n, k) ==
  /\ pc = "resolved" /\ code_op \in LoopDirectives
  /\ n = omp_clauses.collapse /\ n >= 2 /\ Len(do_nest) >= n
  /\ \A m \in 1..n : do_nest[m].op = "EXEC_DO"
  /\ k < n /\ ImperfectAt(k)
  /\ \A m \in 1..(k - 1) : ~ImperfectAt(m)

(* C24: when a statement other than a no-op follows the loop of level K,   *)
(* K below the collapse count N, the 'not perfectly nested' error is       *)
(* reported and the loops of the levels K+1..N are still checked: one      *)
(* whose variable is, or whose bounds reference, the variable of the       *)
(* outermost loop gets the rectangular iteration space error.              *)
C24_ContinuesAfterImperfectNest ==
  \A n \in 2..(MaxNest + 1) : \A k \in 1..MaxNest :
     FirstImperfectLevel(n, k) =>
       /\ ReportedAt("collapsed loops not perfectly nested", k)
       /\ \A i \in (k + 1)..n :
            C10_DependsOn(i, 1) =>
              ReportedAt("collapsed loops don't form rectangular iteration space", i)

(* What the code does: the error of level K is the last one reported;      *)
(* nothing is reported for a deeper loop.                                  *)
C24_StopsAfterImperfectNest ==
  \A n \in 2..(MaxNest + 1) : \A k \in 1..MaxNest :
     FirstImperfectLevel(n, k) =>
       /\ errors # <<>>
       /\ errors[Len(errors)].msg = "collapsed loops not perfectly nested"
       /\ errors[Len(errors)].level = k
       /\ \A e \in 1..Len(errors) : errors[e].level <= k

(***************************************************************************)
(* The trailing expression of aligned and linear: the clause written once  *)
(* or twice, each time with or without `: expression'.                     *)
(***************************************************************************)
TrailingShapes ==
  {ListClause(kw, "", L, e) :
     kw \in {"aligned", "linear"}, L \in VarLists, e \in {"", "e1", "e2"}}

TrailingCalls ==
  {[text |-> Separated(q, " ", sep),
    mask |-> AllClauseBits, first |-> TRUE, needs_space |-> TRUE] :
     q \in {<<s1>> : s1 \in TrailingShapes}
           \cup {<<s1, s2>> : s1 \in TrailingShapes, s2 \in TrailingShapes},
     sep \in {",", " "}}

SpecTrailing == ParseInit(TrailingCalls) /\ [][ParseNext]_vars

TrailingList(kw) == IF kw = "aligned" THEN "ALIGNED" ELSE "LINEAR"

(* how many entries the clauses before the k-th put on the k-th's list *)
RECURSIVE EntriesBefore(_, _, _)
EntriesBefore(text, kw, k) ==
  IF k <= 1 THEN 0
  ELSE EntriesBefore(text, kw, k - 1)
       + (IF text[k - 1].kw = kw THEN Len(text[k - 1].vars) ELSE 0)

(* the k-th clause has been matched: every entry of its sublist carries    *)
(* the clause's expression                                                 *)
EveryEntryHasExpr(k) ==
  LET it == directive_text[k]
      list == parser.c.lists[TrailingList(it.kw)]
      before == EntriesBefore(directive_text, it.kw, k)
  IN /\ Len(list) >= before + Len(it.vars)
     /\ \A j \in 1..Len(it.vars) :
          list[before + j] = Namelist(it.vars[j], ParsedExpr(it.expr))

(* the clauses of the line that are matched, have two or more variables    *)
(* and a trailing expression                                               *)
MatchedWithExpr(kws) ==
  {k \in 1..Len(directive_text) :
     /\ k < parser.locus
     /\ directive_text[k].kw \in kws
     /\ Len(directive_text[k].vars) >= 2
     /\ directive_text[k].expr # ""}

EarlierEntriesKept ==
  \A l \in {"ALIGNED", "LINEAR"} :
     /\ Len(parser'.c.lists[l]) >= Len(parser.c.lists[l])
     /\ SubSeq(parser'.c.lists[l], 1, Len(parser.c.lists[l])) = parser.c.lists[l]

(* C25: once an aligned or linear clause with two or more variables and a  *)
(* trailing expression is matched, every entry of the sublist it appended  *)
(* has that expression as its expr, and no step changes the entries that   *)
(* were on the list before.                                                *)
C25_ExprOnEveryEntry ==
  /\ [](\A k \in MatchedWithExpr({"aligned", "linear"}) : EveryEntryHasExpr(k))
  /\ [][EarlierEntriesKept]_vars

(* the same for aligned alone *)
C25_AlignedExprOnEveryEntry ==
  /\ [](\A k \in MatchedWithExpr({"aligned"}) : EveryEntryHasExpr(k))
  /\ [][EarlierEntriesKept]_vars

(* linear: the first entry of the sublist has the expression, the others   *)
(* have none                                                               *)
C25_LinearExprOnHeadOnly ==
  \A k \in MatchedWithExpr({"linear"}) :
     LET it == directive_text[k]
         list == parser.c.lists["LINEAR"]
         before == EntriesBefore(directive_text, "linear", k)
     IN /\ list[before + 1] = Namelist(it.vars[1], ParsedExpr(it.expr))
        /\ \A j \in 2..Len(it.vars) : list[before + j] = Namelist(it.vars[j], NULL)

(***************************************************************************)
(* Updates whose right hand side is a chain of two operators, x op1 a op2  *)
(* b as the matcher builds it, (x op1 a) op2 b, over every pair of the     *)
(* operators of an atomic update.                                          *)
(***************************************************************************)
ChainLeaves == {"x", "y", "1"}

TwoOperatorChains ==
  {BinOp(2, op2, BinOp(3, op1, Leaf(4, "x"), Leaf(5, a)), Leaf(6, b)) :
     op1 \in AtomicOperators, op2 \in AtomicOperators,
     a \in ChainLeaves, b \in ChainLeaves}

ChainInputs ==
  {AtomicCode("GFC_OMP_ATOMIC_UPDATE", <<Assign(Leaf(1, "x"), rhs)>>) :
     rhs \in TwoOperatorChains}

ChainsInit ==
  /\ pc = "gfc_resolve_omp_directive"
  /\ atomic_code \in ChainInputs
  /\ symtab \in AtomicSymbols
  /\ code_op = "EXEC_OMP_ATOMIC"
  /\ do_nest = <<>>
  /\ omp_clauses = <<>> /\ mark = <<>> /\ errors = <<>>
  /\ NoKernels /\ NoParse /\ NoContext

SpecChains == ChainsInit /\ [][AtomicNext]_vars

(* the pairs of an operator and its inverse *)
Inverses ==
  {<<"INTRINSIC_PLUS", "INTRINSIC_MINUS">>, <<"INTRINSIC_MINUS", "INTRINSIC_PLUS">>,
   <<"INTRINSIC_TIMES", "INTRINSIC_DIVIDE">>, <<"INTRINSIC_DIVIDE", "INTRINSIC_TIMES">>,
   <<"INTRINSIC_EQV", "INTRINSIC_NEQV">>, <<"INTRINSIC_NEQV", "INTRINSIC_EQV">>}

NotAssociative ==
  {"INTRINSIC_MINUS", "INTRINSIC_DIVIDE", "INTRINSIC_EQV", "INTRINSIC_NEQV"}

(* (x op1 a) op2 b, op1 being op2 or its inverse, a and b scalar and       *)
(* without x                                                               *)
C26_Chain(rhs) ==
  /\ rhs.expr_type = "EXPR_OP" /\ rhs.op \in AtomicOperators
  /\ rhs.args[1].expr_type = "EXPR_OP"
  /\ (rhs.args[1].op = rhs.op \/ <<rhs.args[1].op, rhs.op>> \in Inverses)
  /\ is_var(rhs.args[1].args[1], "x")
  /\ ScalarWithout(rhs.args[1].args[2], "x")
  /\ ScalarWithout(rhs.args[2], "x")

(* C26: an update of x by (x op1 a) op2 b, op1 being op2 or its inverse    *)
(* and a, b scalar and without x, is rewritten to x op1 (a op2 b), x the   *)
(* left operand of the top operator; the math-equivalence diagnostic is    *)
(* reported when op1 is -, /, .eqv. or .neqv., and nothing is reported     *)
(* when op1 is +, *, .and. or .or.                                         *)
C26_ChainRewritten ==
  [][LET rhs == atomic_code.block[1].expr2
         after == atomic_code'.block[1].expr2
     IN (C11_UpdateOfX /\ C26_Chain(rhs)) =>
          /\ after.expr_type = "EXPR_OP"
          /\ after.op = rhs.args[1].op
          /\ is_var(after.args[1], "x")
          /\ after.args[2].expr_type = "EXPR_OP"
          /\ after.args[2].op = rhs.op
          /\ after.args[2].args = <<rhs.args[1].args[2], rhs.args[2]>>
          /\ errors' = IF rhs.args[1].op \in NotAssociative
                       THEN <<Advisory>> ELSE <<>>]_vars

(* x = x / y * 1 has become x = x / (y * 1), with the diagnostic *)
C26_Witness ==
  /\ pc = "resolved"
  /\ LET after == atomic_code.block[1].expr2
     IN /\ after.expr_type = "EXPR_OP" /\ after.op = "INTRINSIC_DIVIDE"
        /\ is_var(after.args[1], "x")
        /\ after.args[2].expr_type = "EXPR_OP"
        /\ after.args[2].op = "INTRINSIC_TIMES"
        /\ after.args[2].args = <<Leaf(5, "y"), Leaf(6, "1")>>
  /\ errors = <<Advisory>>

(* x = x * y / 1 has become x = x * (y / 1), and nothing is reported *)
C26_WitnessNoDiagnostic ==
  /\ pc = "resolved"
  /\ LET after == atomic_code.block[1].expr2
     IN /\ after.expr_type = "EXPR_OP" /\ after.op = "INTRINSIC_TIMES"
        /\ is_var(after.args[1], "x")
        /\ after.args[2].expr_type = "EXPR_OP"
        /\ after.args[2].op = "INTRINSIC_DIVIDE"
        /\ after.args[2].args = <<Leaf(5, "y"), Leaf(6, "1")>>
  /\ errors = <<>>

(***************************************************************************)
(* The chain of contexts against the constructs that are being resolved.   *)
(***************************************************************************)
(* the directives of the contexts of a chain, innermost first *)
ChainCodes(chain) == [n \in 1..Len(chain) |-> chain[n].code]

(* the directives of the parallel constructs whose resolution has not      *)
(* returned, innermost first, up to the caller that cleared the state      *)
RECURSIVE OpenParallel(_)
OpenParallel(stack) ==
  IF stack = <<>> \/ Head(stack).fn = "gfc_omp_save_and_clear_state" THEN <<>>
  ELSE IF Head(stack).fn = "gfc_resolve_omp_parallel_blocks"
  THEN <<Head(stack).code>> \o OpenParallel(Tail(stack))
  ELSE OpenParallel(Tail(stack))

(* C27: the chain of contexts is that of the parallel constructs being     *)
(* resolved: gfc_resolve_omp_parallel_blocks puts one context for its      *)
(* directive in front of the chain, its return leaves the chain that was   *)
(* there before the call, no other step in between changes which contexts  *)
(* are on the chain, and when nothing is being resolved the chain is       *)
(* empty.                                                                  *)
C27_ContextStack ==
  /\ [](/\ ChainCodes(omp_current_ctx) = OpenParallel(call_stack)
        /\ call_stack = <<>> => omp_current_ctx = <<>>)
  /\ [][/\ (/\ Len(call_stack') > Len(call_stack)
            /\ Head(call_stack').fn = "gfc_resolve_omp_parallel_blocks") =>
              /\ Len(omp_current_ctx') = Len(omp_current_ctx) + 1
              /\ Tail(omp_current_ctx') = omp_current_ctx
              /\ Head(omp_current_ctx').code = Head(call_stack').code
        /\ (/\ Len(call_stack') < Len(call_stack)
            /\ Head(call_stack).fn = "gfc_resolve_omp_parallel_blocks") =>
              omp_current_ctx' = Tail(omp_current_ctx)]_vars

(* two parallel constructs were nested; the inner one has returned and the *)
(* context of the outer one is the current one again                       *)
C27_Witness ==
  /\ Len(constructs) = 2
  /\ constructs[1].op = "EXEC_OMP_PARALLEL"
  /\ constructs[2].op = "EXEC_OMP_PARALLEL"
  /\ PrivateList(constructs, 2) = <<"i">>
  /\ call_stack = <<[fn |-> "gfc_resolve_omp_parallel_blocks", code |-> 1]>>
  /\ ChainCodes(omp_current_ctx) = <<1>>

(***************************************************************************)
(* The statements the child regions hold.                                  *)
(***************************************************************************)
(* the scanned statements a child region holds: those of its scope, and    *)
(* for a loop region the loop statement, or the setup assignments and the  *)
(* loop statement of the scope that was made for them                      *)
HeldStmts(region) ==
  IF region.kind = GangSingle THEN region.body.body
  ELSE LET stmt == region.body.body[1]
       IN IF stmt.code = "bind" /\ stmt.id = <<>> THEN stmt.body ELSE <<stmt>>

RECURSIVE HeldByAll(_)
HeldByAll(regions) ==
  IF regions = <<>> THEN <<>>
  ELSE HeldStmts(Head(regions)) \o HeldByAll(Tail(regions))

(* C28: the statements held by the child regions, taken in the order of    *)
(* the regions, are the statements of the flattened body in their order,   *)
(* each once: a statement that holds no loop is the statement itself, a    *)
(* statement that holds a top-level loop is that statement with only the   *)
(* clauses of the loop changed; for an empty body the one statement held   *)
(* is the no-op that was made.                                             *)
C28_EveryStatementInOneRegion ==
  pc = "done" =>
    LET held == HeldByAll(region_body)
    IN IF Scanned = <<>> THEN held = <<GNop>>
       ELSE /\ Len(held) = Len(Scanned)
            /\ \A k \in 1..Len(Scanned) :
                 IF IsLoopAt(k)
                 THEN /\ held[k].id = Scanned[k].id
                      /\ held[k].code = Scanned[k].code
                      /\ top_level_omp_for_in_stmt(held[k]).id
                           = top_level_omp_for_in_stmt(Scanned[k]).id
                 ELSE held[k] = Scanned[k]

(* a call and an assignment in a gang-single region, then a loop in a      *)
(* region of its own                                                       *)
C28_Witness ==
  /\ pc = "done"
  /\ Len(Scanned) = 3
  /\ Len(region_body) = 2
  /\ region_body[1].kind = GangSingle
  /\ Len(HeldStmts(region_body[1])) = 2
  /\ region_body[2].kind = Parallelized
  /\ IdsOf(HeldByAll(region_body)) = IdsOf(Scanned)

(***************************************************************************)
(* The force-present clauses of the child regions against the clauses of   *)
(* the inner data region.                                                  *)
(***************************************************************************)
(* the clauses of the inner data region, none when no region was built *)
InnerDataClauses ==
  IF BuiltBody.code = "bind" /\ Len(BuiltBody.body) = 1
  THEN LET inside == BuiltBody.body[1]
           region == IF inside.code = "try" THEN inside.eval[1] ELSE inside
       IN IF region.code = "omp_target"
          THEN IF region.kind = "oacc_data_kernels" THEN region.clauses ELSE <<>>
          ELSE <<>>
  ELSE <<>>

HasMapClause(clauses, kind, v) ==
  \E k \in 1..Len(clauses) :
     clauses[k].code = "map" /\ clauses[k].kind = kind /\ clauses[k].decl = v

(* the collected variables a child region has a force-present clause for *)
PresentInChildren ==
  {v \in Collected :
     \E i \in 1..Len(region_body) :
        HasMapClause(region_body[i].clauses, "force_present", v)}

(* C29: every collected variable for which a child region carries a        *)
(* force-present clause has an alloc clause on the inner data region,      *)
(* also when the function is a template instantiation.                     *)
C29_PresentImpliesCreated ==
  pc = "done" =>
    \A v \in PresentInChildren : HasMapClause(InnerDataClauses, "alloc", v)

(* the same when the function is no template instantiation *)
C29_CreatedOutsideTemplates ==
  (pc = "done" /\ ~is_template) =>
    \A v \in PresentInChildren : HasMapClause(InnerDataClauses, "alloc", v)

(* In a template instantiation no collected variable has an alloc clause,  *)
(* while the variables that are neither artificial nor constants have a    *)
(* force-present clause on every child region.                             *)
C29_TemplateCreatesNone ==
  (pc = "done" /\ is_template) =>
    /\ InnerDataClauses = <<>>
    /\ \A v \in Collected :
         (~v.artificial /\ v.tcode # "const_decl") =>
            \A i \in 1..Len(region_body) :
               HasMapClause(region_body[i].clauses, "force_present", v)

(***************************************************************************)
(* The tracked loop and the collapse count after a loop construct has been *)
(* resolved.                                                               *)
(***************************************************************************)
(* a step that returns from the resolution of a loop construct *)
ReturnsFromFor ==
  /\ call_stack # <<>>
  /\ IsForFrame(Head(call_stack))
  /\ call_stack' = Tail(call_stack)

(* C30: when gfc_resolve_omp_do_blocks returns, the tracked loop statement *)
(* is NULL and the collapse count is 0, whatever they were when it was     *)
(* entered; the values of an enclosing loop construct are not put back.    *)
C30_DoStateClearedOnReturn ==
  [][ReturnsFromFor =>
       /\ omp_current_do_code' = NULL
       /\ omp_current_do_collapse' = 0]_vars

(* a do construct with one loop is being resolved, a do construct with no  *)
(* loop nested in its body (entered with the outer loop as the tracked     *)
(* one) has returned, and nothing is tracked any more                      *)
C30_Witness ==
  /\ Len(constructs) = 2
  /\ constructs[1].op = "EXEC_OMP_DO" /\ constructs[1].nest = 1
  /\ constructs[2].op = "EXEC_OMP_DO" /\ constructs[2].nest = 0
  /\ call_stack = <<[fn |-> "gfc_resolve_omp_do_blocks", code |-> 1]>>
  /\ omp_current_do_code = NULL
  /\ omp_current_do_collapse = 0
====
